---------------------------- MODULE Spec2Model ----------------------------
(***************************************************************************)
(* Model of the Poses scene extension of the 3D panel                      *)
(* (packages/studio-base/src/panels/ThreeDeeRender/renderables/Poses.ts).  *)
(*                                                                         *)
(* Units.  Lengths (marker scales) are in hundredths, covariance entries   *)
(* in ten-thousandths, so that Math.sqrt maps the one onto the other over  *)
(* the integers: sqrt(0.04) = 0.2 reads Sqrt(400) = 20.                    *)
(*                                                                         *)
(* JavaScript objects are functions whose DOMAIN is the set of own keys;   *)
(* "k in o" is k \in DOMAIN o, and the spread {...a, ...b} is b @@ a.      *)
(* References are indices into the heaps of allocated objects.             *)
(***************************************************************************)
EXTENDS Integers, Sequences, FiniteSets, TLC

\* Number of messages the pipeline delivers (the receive clock stops there).
MaxTime == 2

\* Number of settings-tree actions the user performs.
MaxEdits == 2

Topics == {"/pose", "/odom"}

-----------------------------------------------------------------------------
\* Settings

DEFAULT_SCALE == <<100, 15, 15>>

DEFAULT_COLOR_STR == "rgba(124, 107, 255, 1)"

DEFAULT_COVARIANCE_COLOR_STR == "rgba(198, 107, 255, 0.25)"

DEFAULT_SETTINGS ==
  [visible |-> TRUE,
   scale |-> DEFAULT_SCALE,
   color |-> DEFAULT_COLOR_STR,
   showCovariance |-> TRUE,
   covarianceColor |-> DEFAULT_COVARIANCE_COLOR_STR]

SettingsFields == DOMAIN DEFAULT_SETTINGS

\* Variant: the spread with the values of the first object winning.
Spread_FirstWins(a, b) == a @@ b

\* {...a, ...b}: the own keys of both, b's values winning.
Spread(a, b) == b @@ a

\* An absent object (undefined) spreads as no keys at all.
EmptyObject == [k \in {} |-> TRUE]

\* stringToRgba(makeRgba(), str): the css string parsed into channels (0..255,
\* alpha in hundredths); a string that does not parse leaves makeRgba()'s value.
stringToRgba(str) ==
  CASE str = "rgba(124, 107, 255, 1)" -> [r |-> 124, g |-> 107, b |-> 255, a |-> 100]
    [] str = "rgba(198, 107, 255, 0.25)" -> [r |-> 198, g |-> 107, b |-> 255, a |-> 25]
    [] str = "#ff0000" -> [r |-> 255, g |-> 0, b |-> 0, a |-> 100]
    [] str = "#00ff0080" -> [r |-> 0, g |-> 255, b |-> 0, a |-> 50]
    [] OTHER -> [r |-> 0, g |-> 0, b |-> 0, a |-> 100]

-----------------------------------------------------------------------------
\* Messages

TIME_ZERO == [sec |-> 0, nsec |-> 0]

toNanoSec(t) == t.sec * 1000000000 + t.nsec

\* Math.sqrt on the variances the messages of this model carry (perfect squares).
Sqrt(n) == CHOOSE r \in 0..n : r * r = n

ZeroMatrix6 == [i \in 0..35 |-> 0]

\* The covariance of the end-to-end example: diagonal 0.04, 0.09, 0.01.
CovExample == [i \in 0..35 |-> CASE i = 0 -> 400 [] i = 7 -> 900 [] i = 14 -> 100 [] OTHER -> 0]

\* The same position variances, other entries set (rotation variances, off-diagonal).
CovExampleFull ==
  [i \in 0..35 |-> CASE i = 0 -> 400 [] i = 7 -> 900 [] i = 14 -> 100
                     [] i = 1 -> 900 [] i = 6 -> 900 [] i = 21 -> 400 [] i = 35 -> 100
                     [] OTHER -> 0]

HeaderMap == [frame_id |-> "map", stamp |-> [sec |-> 1, nsec |-> 500]]

HeaderOdom == [frame_id |-> "odom", stamp |-> [sec |-> 2, nsec |-> 0]]

PoseA == [position |-> [x |-> 100, y |-> 200, z |-> 0],
          orientation |-> [x |-> 0, y |-> 0, z |-> 0, w |-> 1]]

\* normalizeHeader: an omitted header, frame id or stamp gets its zero value.
normalizeHeader(raw) ==
  IF "header" \notin DOMAIN raw
  THEN [frame_id |-> "", stamp |-> TIME_ZERO]
  ELSE [frame_id |-> IF "frame_id" \in DOMAIN raw.header THEN raw.header.frame_id ELSE "",
        stamp |-> IF "stamp" \in DOMAIN raw.header THEN raw.header.stamp ELSE TIME_ZERO]

\* normalizePose: an omitted pose, position or orientation is the origin, the
\* identity orientation.
normalizePose(raw) ==
  IF "pose" \notin DOMAIN raw
  THEN [position |-> [x |-> 0, y |-> 0, z |-> 0],
        orientation |-> [x |-> 0, y |-> 0, z |-> 0, w |-> 1]]
  ELSE [position |-> IF "position" \in DOMAIN raw.pose
                     THEN raw.pose.position
                     ELSE [x |-> 0, y |-> 0, z |-> 0],
        orientation |-> IF "orientation" \in DOMAIN raw.pose
                        THEN raw.pose.orientation
                        ELSE [x |-> 0, y |-> 0, z |-> 0, w |-> 1]]

\* normalizeMatrix6: an omitted covariance is the zero matrix of 36 entries.
normalizeMatrix6(raw) ==
  IF "covariance" \notin DOMAIN raw THEN ZeroMatrix6 ELSE raw.covariance

\* Variant: the PoseStamped normalizer fills in a covariance as well.
normalizePoseStamped_WithCovariance(pose) ==
  [header |-> normalizeHeader(pose),
   pose |-> [pose |-> normalizePose(pose), covariance |-> normalizeMatrix6(pose)]]

normalizePoseStamped(pose) ==
  [header |-> normalizeHeader(pose),
   pose |-> normalizePose(pose)]

\* Variant: the covariance is passed through as it came, omitted or not.
normalizePoseWithCovariance_RawCovariance(pose) ==
  IF "covariance" \in DOMAIN pose
  THEN [pose |-> normalizePose(pose), covariance |-> pose.covariance]
  ELSE [pose |-> normalizePose(pose)]

normalizePoseWithCovariance(pose) ==
  [pose |-> normalizePose(pose),
   covariance |-> normalizeMatrix6(pose)]

normalizePoseWithCovarianceStamped(message) ==
  [header |-> normalizeHeader(message),
   pose |-> normalizePoseWithCovariance(
              IF "pose" \in DOMAIN message THEN message.pose ELSE EmptyObject)]

\* Partial messages as the pipeline delivers them.
StampedMap == [header |-> HeaderMap, pose |-> PoseA]

StampedNoHeader == [pose |-> PoseA]

CovStampedExample ==
  [header |-> HeaderMap, pose |-> [pose |-> PoseA, covariance |-> CovExample]]

CovStampedFull ==
  [header |-> HeaderOdom, pose |-> [pose |-> PoseA, covariance |-> CovExampleFull]]

CovStampedNoCovariance == [header |-> HeaderMap, pose |-> [pose |-> PoseA]]

\* PoseStamped deliveries: <<topic, message>>.
PoseStampedEvents ==
  {<<"/pose", StampedMap>>, <<"/pose", StampedNoHeader>>}

\* PoseWithCovarianceStamped deliveries: <<topic, message>>.
PoseWithCovarianceEvents ==
  {<<"/pose", CovStampedExample>>, <<"/pose", CovStampedFull>>,
   <<"/pose", CovStampedNoCovariance>>, <<"/odom", CovStampedFull>>}

-----------------------------------------------------------------------------
\* Markers

createArrowMarker(poseMessage, settings) ==
  [header |-> poseMessage.header,
   id |-> 0,
   type |-> "ARROW",
   scale |-> [x |-> settings.scale[1], y |-> settings.scale[2], z |-> settings.scale[3]],
   color |-> stringToRgba(settings.color)]

\* Variant: the diagonal read with the stride of a 6x6 matrix less one.
createSphereMarker_WrongDiagonal(poseMessage, settings) ==
  LET K == poseMessage.pose.covariance
  IN [header |-> poseMessage.header,
      id |-> 1,
      type |-> "SPHERE",
      scale |-> [x |-> Sqrt(K[0]), y |-> Sqrt(K[6]), z |-> Sqrt(K[12])],
      color |-> stringToRgba(settings.covarianceColor)]

createSphereMarker(poseMessage, settings) ==
  LET K == poseMessage.pose.covariance
  IN [header |-> poseMessage.header,
      id |-> 1,
      type |-> "SPHERE",
      scale |-> [x |-> Sqrt(K[0]), y |-> Sqrt(K[7]), z |-> Sqrt(K[14])],
      color |-> stringToRgba(settings.covarianceColor)]
-----------------------------------------------------------------------------
\* State

VARIABLES
  config,       \* renderer.config: the persisted settings, by root key then name
  renderables,  \* SceneExtension.renderables: topic name -> reference to a PoseRenderable
  poseObjs,     \* every PoseRenderable allocated so far (a reference is an index)
  arrows,       \* every RenderableArrow allocated so far
  spheres,      \* every RenderableSphere allocated so far
  now,          \* receive clock of the message pipeline (nanoseconds)
  edits         \* number of settings-tree actions handled so far

VARIABLES
  merge         \* a settings resolution in isolation: its inputs, its result so far

\* The diagnostics summary panel (panels/diagnostics/DiagnosticSummary.tsx).
VARIABLES
  diagnostics,       \* useDiagnostics(): hardware id -> name -> DiagnosticInfo
  pinnedIds,         \* config.pinnedIds
  hardwareIdFilter,  \* config.hardwareIdFilter
  minLevel,          \* config.minLevel
  sortByLevel        \* config.sortByLevel

posesVars == <<config, renderables, poseObjs, arrows, spheres, now, edits>>

diagVars == <<diagnostics, pinnedIds, hardwareIdFilter, minLevel, sortByLevel>>

\* The chart bridge (app/components/Chart/worker/ChartJSManager.ts).
VARIABLES
  chartInstance,     \* _chartInstance: the options, data, size and scales of the Chart
  rpcResult,         \* the scales the last operation returned to the host, <<>> before any
  lastDatalabelClickContext,  \* _lastDatalabelClickContext, <<>> for undefined
  datalabel          \* what the last getDatalabelAtEvent returned, <<>> for undefined

chartVars == <<chartInstance, rpcResult, lastDatalabelClickContext, datalabel>>

\* The emulated event targets of the chart bridges and the zoom plugin they share.
VARIABLES
  zoomPluginStart,   \* ZoomPlugin.start: the wrappers around the plugin's own hook, outermost first
  managers,          \* every ChartJSManager constructed so far: the ctx of its chart, its two emitters
  canvasListeners,   \* the listeners registered on real canvases and their documents
  calls              \* the listeners the last pointer operation invoked, in order

targetVars == <<zoomPluginStart, managers, canvasListeners, calls>>

vars == <<posesVars, merge, diagVars, chartVars, targetVars>>

\* The part of the state the handlers of the extension read and write.
Scene == [config |-> config, renderables |-> renderables, poseObjs |-> poseObjs,
          arrows |-> arrows, spheres |-> spheres]

\* this.renderer.config.topics[topic] as Partial<LayerSettingsPose> | undefined
UserSettings(cfg, topic) ==
  IF topic \in DOMAIN cfg.topics THEN cfg.topics[topic] ELSE EmptyObject

\* new RenderableArrow(topic, marker, undefined, renderer)
NewArrow(topic, marker) ==
  [name |-> topic, marker |-> marker, disposed |-> FALSE]

\* new RenderableSphere(topic, marker, undefined, renderer); an Object3D is
\* visible when constructed.
NewSphere(topic, marker) ==
  [name |-> topic, marker |-> marker, visible |-> TRUE, disposed |-> FALSE]

HasCovariance(poseMessage) == "covariance" \in DOMAIN poseMessage.pose

\* Variant: a sphere is allocated only while showCovariance is true.
UpdateSphere_OnlyWhenShown(s, rid, poseMessage) ==
  LET ud == s.poseObjs[rid].userData
      sphereMarker == createSphereMarker(poseMessage, ud.settings)
      fresh == ud.sphere = <<>>
      sph == IF fresh
             THEN Append(s.spheres, NewSphere(ud.topic, sphereMarker))
             ELSE s.spheres
      sid == IF fresh THEN Len(sph) ELSE ud.sphere[1]
  IN IF fresh /\ ~ud.settings.showCovariance
     THEN [s EXCEPT !.poseObjs[rid].userData.pose = poseMessage.pose.pose]
     ELSE [s EXCEPT
             !.poseObjs[rid].userData.pose = poseMessage.pose.pose,
             !.poseObjs[rid].userData.sphere = <<sid>>,
             !.spheres = [sph EXCEPT ![sid].visible = ud.settings.showCovariance,
                                     ![sid].marker = sphereMarker]]

\* Variant: a new sphere replaces the old one on every update.
UpdateSphere_Realloc(s, rid, poseMessage) ==
  LET ud == s.poseObjs[rid].userData
      sphereMarker == createSphereMarker(poseMessage, ud.settings)
      sph == Append(s.spheres, NewSphere(ud.topic, sphereMarker))
      sid == Len(sph)
  IN [s EXCEPT
        !.poseObjs[rid].userData.pose = poseMessage.pose.pose,
        !.poseObjs[rid].userData.sphere = <<sid>>,
        !.spheres = [sph EXCEPT ![sid].visible = ud.settings.showCovariance,
                                ![sid].marker = sphereMarker]]

\* Variant: the visibility of the sphere is set only when it is allocated.
UpdateSphere_VisibleOnCreate(s, rid, poseMessage) ==
  LET ud == s.poseObjs[rid].userData
      sphereMarker == createSphereMarker(poseMessage, ud.settings)
      fresh == ud.sphere = <<>>
      sph == IF fresh
             THEN Append(s.spheres,
                         [NewSphere(ud.topic, sphereMarker) EXCEPT
                            !.visible = ud.settings.showCovariance])
             ELSE s.spheres
      sid == IF fresh THEN Len(sph) ELSE ud.sphere[1]
  IN [s EXCEPT
        !.poseObjs[rid].userData.pose = poseMessage.pose.pose,
        !.poseObjs[rid].userData.sphere = <<sid>>,
        !.spheres = [sph EXCEPT ![sid].marker = sphereMarker]]

\* The sphere branch of _updatePoseRenderable (message carries covariance).
UpdateSphere(s, rid, poseMessage) ==
  LET ud == s.poseObjs[rid].userData
      sphereMarker == createSphereMarker(poseMessage, ud.settings)
      fresh == ud.sphere = <<>>
      sph == IF fresh
             THEN Append(s.spheres, NewSphere(ud.topic, sphereMarker))
             ELSE s.spheres
      sid == IF fresh THEN Len(sph) ELSE ud.sphere[1]
  IN [s EXCEPT
        !.poseObjs[rid].userData.pose = poseMessage.pose.pose,
        !.poseObjs[rid].userData.sphere = <<sid>>,
        !.spheres = [sph EXCEPT ![sid].visible = ud.settings.showCovariance,
                                ![sid].marker = sphereMarker]]

\* Variant: the arrow is replaced by a new one instead of being updated.
_updatePoseRenderable_NewArrow(s, rid, poseMessage, receiveTime) ==
  LET ud == s.poseObjs[rid].userData
      arrowMarker == createArrowMarker(poseMessage, ud.settings)
      arrows1 == Append(s.arrows, NewArrow(ud.topic, arrowMarker))
      s1 == [s EXCEPT
               !.poseObjs[rid].userData.receiveTime = receiveTime,
               !.poseObjs[rid].userData.messageTime = toNanoSec(poseMessage.header.stamp),
               !.poseObjs[rid].userData.frameId = poseMessage.header.frame_id,
               !.poseObjs[rid].userData.poseMessage = poseMessage,
               !.poseObjs[rid].userData.arrow = Len(arrows1),
               !.poseObjs[rid].children =
                  {c \in @ : c[1] # "arrow"} \cup {<<"arrow", Len(arrows1)>>},
               !.arrows = arrows1]
  IN IF HasCovariance(poseMessage)
     THEN UpdateSphere(s1, rid, poseMessage)
     ELSE [s1 EXCEPT !.poseObjs[rid].userData.pose = poseMessage.pose]

\* Variant: the frame id of the Renderable stays the one it was created with.
_updatePoseRenderable_KeepsFrame(s, rid, poseMessage, receiveTime) ==
  LET ud == s.poseObjs[rid].userData
      arrowMarker == createArrowMarker(poseMessage, ud.settings)
      s1 == [s EXCEPT
               !.poseObjs[rid].userData.receiveTime = receiveTime,
               !.poseObjs[rid].userData.messageTime = toNanoSec(poseMessage.header.stamp),
               !.poseObjs[rid].userData.poseMessage = poseMessage,
               !.arrows[ud.arrow].marker = arrowMarker]
  IN IF HasCovariance(poseMessage)
     THEN UpdateSphere(s1, rid, poseMessage)
     ELSE [s1 EXCEPT !.poseObjs[rid].userData.pose = poseMessage.pose]

_updatePoseRenderable(s, rid, poseMessage, receiveTime) ==
  LET ud == s.poseObjs[rid].userData
      arrowMarker == createArrowMarker(poseMessage, ud.settings)
      s1 == [s EXCEPT
               !.poseObjs[rid].userData.receiveTime = receiveTime,
               !.poseObjs[rid].userData.messageTime = toNanoSec(poseMessage.header.stamp),
               !.poseObjs[rid].userData.frameId = poseMessage.header.frame_id,
               !.poseObjs[rid].userData.poseMessage = poseMessage,
               !.arrows[ud.arrow].marker = arrowMarker]
  IN IF HasCovariance(poseMessage)
     THEN UpdateSphere(s1, rid, poseMessage)
     ELSE [s1 EXCEPT !.poseObjs[rid].userData.pose = poseMessage.pose]

\* The creation branch of addPose (no Renderable for the topic yet).
CreatePoseRenderable(s, topic, poseMessage, receiveTime) ==
  LET settings == Spread(DEFAULT_SETTINGS, UserSettings(s.config, topic))
      arrowMarker == createArrowMarker(poseMessage, settings)
      arrows1 == Append(s.arrows, NewArrow(topic, arrowMarker))
      aid == Len(arrows1)
      withCov == HasCovariance(poseMessage)
      spheres1 == IF withCov
                  THEN Append(s.spheres,
                              NewSphere(topic, createSphereMarker(poseMessage, settings)))
                  ELSE s.spheres
      sphere == IF withCov THEN <<Len(spheres1)>> ELSE <<>>
      renderable ==
        [name |-> topic,
         userData |->
           [receiveTime |-> receiveTime,
            messageTime |-> toNanoSec(poseMessage.header.stamp),
            frameId |-> poseMessage.header.frame_id,
            pose |-> IF withCov THEN poseMessage.pose.pose ELSE poseMessage.pose,
            settingsPath |-> <<"topics", topic>>,
            settings |-> settings,
            topic |-> topic,
            poseMessage |-> poseMessage,
            arrow |-> aid,
            sphere |-> sphere],
         children |-> {<<"arrow", aid>>} \cup {<<"sphere", sphere[i]>> : i \in DOMAIN sphere},
         disposed |-> FALSE]
      poseObjs1 == Append(s.poseObjs, renderable)
  IN [s EXCEPT !.arrows = arrows1,
               !.spheres = spheres1,
               !.poseObjs = poseObjs1,
               !.renderables = (topic :> Len(poseObjs1)) @@ s.renderables]

\* Variant: a Renderable is created for every message, known topic or not.
addPose_AlwaysCreate(s, topic, poseMessage, receiveTime) ==
  LET s1 == CreatePoseRenderable(s, topic, poseMessage, receiveTime)
  IN _updatePoseRenderable(s1, s1.renderables[topic], poseMessage, receiveTime)

addPose(s, topic, poseMessage, receiveTime) ==
  LET s1 == IF topic \in DOMAIN s.renderables
            THEN s
            ELSE CreatePoseRenderable(s, topic, poseMessage, receiveTime)
  IN _updatePoseRenderable(s1, s1.renderables[topic], poseMessage, receiveTime)

\* saveSetting(path, value) for a path of three segments: lodash set on the
\* config draft, creating the intermediate objects that are missing.
saveSetting(cfg, path, value) ==
  LET root == cfg[path[1]]
      node == IF path[2] \in DOMAIN root THEN root[path[2]] ELSE EmptyObject
  IN [cfg EXCEPT ![path[1]] = (path[2] :> ((path[3] :> value) @@ node)) @@ root]

\* Variant: the spread the other way round, the current settings winning.
handleSettingsAction_CurrentWins(s, action) ==
  LET path == action.payload.path
  IN IF action.action # "update" \/ Len(path) # 3
     THEN s
     ELSE LET s1 == [s EXCEPT !.config = saveSetting(s.config, path, action.payload.value)]
              topicName == path[2]
          IN IF topicName \in DOMAIN s1.renderables
             THEN LET rid == s1.renderables[topicName]
                      ud == s1.poseObjs[rid].userData
                      settings == UserSettings(s1.config, topicName)
                      s2 == [s1 EXCEPT !.poseObjs[rid].userData.settings =
                                          Spread(settings, ud.settings)]
                  IN _updatePoseRenderable(s2, rid, ud.poseMessage, ud.receiveTime)
             ELSE s1

\* Variant: the refresh is stamped with a zero receive time.
handleSettingsAction_ResetsReceiveTime(s, action) ==
  LET path == action.payload.path
  IN IF action.action # "update" \/ Len(path) # 3
     THEN s
     ELSE LET s1 == [s EXCEPT !.config = saveSetting(s.config, path, action.payload.value)]
              topicName == path[2]
          IN IF topicName \in DOMAIN s1.renderables
             THEN LET rid == s1.renderables[topicName]
                      ud == s1.poseObjs[rid].userData
                      settings == UserSettings(s1.config, topicName)
                      s2 == [s1 EXCEPT !.poseObjs[rid].userData.settings =
                                          Spread(ud.settings, settings)]
                  IN _updatePoseRenderable(s2, rid, ud.poseMessage, 0)
             ELSE s1

\* Variant: the edit is persisted only when the topic has a Renderable.
handleSettingsAction_SaveOnlyIfRenderable(s, action) ==
  LET path == action.payload.path
  IN IF action.action # "update" \/ Len(path) # 3
     THEN s
     ELSE LET topicName == path[2]
          IN IF topicName \in DOMAIN s.renderables
             THEN LET s1 == [s EXCEPT !.config =
                                        saveSetting(s.config, path, action.payload.value)]
                      rid == s1.renderables[topicName]
                      ud == s1.poseObjs[rid].userData
                      settings == UserSettings(s1.config, topicName)
                      s2 == [s1 EXCEPT !.poseObjs[rid].userData.settings =
                                          Spread(ud.settings, settings)]
                  IN _updatePoseRenderable(s2, rid, ud.poseMessage, ud.receiveTime)
             ELSE s

handleSettingsAction(s, action) ==
  LET path == action.payload.path
  IN IF action.action # "update" \/ Len(path) # 3
     THEN s
     ELSE LET s1 == [s EXCEPT !.config = saveSetting(s.config, path, action.payload.value)]
              topicName == path[2]
          IN IF topicName \in DOMAIN s1.renderables
             THEN LET rid == s1.renderables[topicName]
                      ud == s1.poseObjs[rid].userData
                      settings == UserSettings(s1.config, topicName)
                      s2 == [s1 EXCEPT !.poseObjs[rid].userData.settings =
                                          Spread(ud.settings, settings)]
                  IN _updatePoseRenderable(s2, rid, ud.poseMessage, ud.receiveTime)
             ELSE s1

\* What is kept of a disposed primitive: it is unreachable from the registry,
\* so only the fact that it was disposed is recorded.
DisposedPrimitive(o) == [name |-> o.name, disposed |-> TRUE]

\* What is kept of a disposed Renderable: the same, and the primitives it owned.
DisposedRenderable(r) ==
  [name |-> r.name, disposed |-> TRUE,
   arrow |-> r.userData.arrow, sphere |-> r.userData.sphere]

\* Variant: the sphere is left to the teardown of the children, which a sphere
\* created after the Renderable is not part of.
PoseRenderableDispose_ForgetsSphere(s, rid) ==
  LET ud == s.poseObjs[rid].userData
      s1 == [s EXCEPT !.arrows[ud.arrow] = DisposedPrimitive(@)]
      s2 == IF ud.sphere # <<>> /\ <<"sphere", ud.sphere[1]>> \in s.poseObjs[rid].children
            THEN [s1 EXCEPT !.spheres[ud.sphere[1]] = DisposedPrimitive(@)]
            ELSE s1
  IN [s2 EXCEPT !.poseObjs[rid] = DisposedRenderable(@)]

\* PoseRenderable.dispose(): the arrow, the sphere if any, then the Renderable.
PoseRenderableDispose(s, rid) ==
  LET ud == s.poseObjs[rid].userData
      s1 == [s EXCEPT !.arrows[ud.arrow] = DisposedPrimitive(@)]
      s2 == IF ud.sphere # <<>>
            THEN [s1 EXCEPT !.spheres[ud.sphere[1]] = DisposedPrimitive(@)]
            ELSE s1
  IN [s2 EXCEPT !.poseObjs[rid] = DisposedRenderable(@)]

\* dispose(topic): releases the Renderable of the topic and removes it from the
\* registry; nothing happens for a topic without a Renderable.
disposeTopic(s, topic) ==
  IF topic \in DOMAIN s.renderables
  THEN LET s1 == PoseRenderableDispose(s, s.renderables[topic])
       IN [s1 EXCEPT !.renderables =
                        [t \in DOMAIN s.renderables \ {topic} |-> s.renderables[t]]]
  ELSE s

\* Disposal of the whole extension: every Renderable of the registry is
\* disposed and the registry is emptied.
RECURSIVE disposeAll(_)
disposeAll(s) ==
  IF DOMAIN s.renderables = {}
  THEN s
  ELSE disposeAll(disposeTopic(s, CHOOSE t \in DOMAIN s.renderables : TRUE))

-----------------------------------------------------------------------------
\* Inputs

ReceiveTime(n) == [sec |-> 0, nsec |-> n]

Update(path, value) == [action |-> "update", payload |-> [path |-> path, value |-> value]]

\* Edits of the fields of a topic node, as the settings editor sends them.
UpdateActions ==
  {Update(<<"topics", "/pose", "visible">>, FALSE),
   Update(<<"topics", "/pose", "scale">>, <<200, 30, 30>>),
   Update(<<"topics", "/pose", "color">>, "#ff0000"),
   Update(<<"topics", "/pose", "showCovariance">>, FALSE),
   Update(<<"topics", "/pose", "showCovariance">>, TRUE),
   Update(<<"topics", "/pose", "covarianceColor">>, "#00ff0080"),
   Update(<<"topics", "/odom", "showCovariance">>, FALSE)}

\* Actions of another shape: another root, a node path, a node action.
OtherActions ==
  {Update(<<"transforms", "/pose", "visible">>, FALSE),
   Update(<<"topics", "/pose">>, FALSE),
   [action |-> "perform-node-action",
    payload |-> [path |-> <<"topics", "/pose", "visible">>, value |-> FALSE]]}

SettingsActions == UpdateActions \cup OtherActions

-----------------------------------------------------------------------------
\* The settings tree

\* The datatype names of the two message kinds (one set per kind, several
\* names for the same kind).
POSE_STAMPED_DATATYPES ==
  {"geometry_msgs/PoseStamped", "geometry_msgs/msg/PoseStamped"}

POSE_WITH_COVARIANCE_STAMPED_DATATYPES ==
  {"geometry_msgs/PoseWithCovarianceStamped", "geometry_msgs/msg/PoseWithCovarianceStamped"}

\* renderer.topics as the data source may announce them: undefined (no
\* topics), or the topics with their datatypes, in some order.
TopicLists ==
  {<<>>,
   <<[name |-> "/pose", datatype |-> "geometry_msgs/PoseWithCovarianceStamped"],
     [name |-> "/scan", datatype |-> "sensor_msgs/LaserScan"],
     [name |-> "/odom", datatype |-> "geometry_msgs/msg/PoseStamped"]>>,
   <<[name |-> "/odom", datatype |-> "geometry_msgs/msg/PoseWithCovarianceStamped"],
     [name |-> "/pose", datatype |-> "geometry_msgs/PoseStamped"],
     [name |-> "/tf", datatype |-> "tf2_msgs/TFMessage"]>>}

\* a ?? b for the key k of an object: its value if the object has the key.
Nullish(object, k, default) ==
  IF k \in DOMAIN object THEN object[k] ELSE default

\* Variant: the covarianceColor field is there whenever showCovariance is.
settingsNodes_AlwaysCovarianceColor(cfg, topics) ==
  LET isPoseStamped(t) == t.datatype \in POSE_STAMPED_DATATYPES
      isPoseWithCovarianceStamped(t) ==
        IF isPoseStamped(t) THEN FALSE
        ELSE t.datatype \in POSE_WITH_COVARIANCE_STAMPED_DATATYPES
      eligible(t) == isPoseStamped(t) \/ isPoseWithCovarianceStamped(t)
      entry(t) ==
        LET c == UserSettings(cfg, t.name)
            fields == [scale |-> [label |-> "Scale", input |-> "vec3",
                                  value |-> Nullish(c, "scale", DEFAULT_SCALE)],
                       color |-> [label |-> "Color", input |-> "rgba",
                                  value |-> Nullish(c, "color", DEFAULT_COLOR_STR)]]
            covariance ==
              [showCovariance |-> [label |-> "Covariance", input |-> "boolean",
                                   value |-> Nullish(c, "showCovariance", TRUE)],
               covarianceColor |->
                 [label |-> "Covariance Color", input |-> "rgba",
                  value |-> Nullish(c, "covarianceColor", DEFAULT_COVARIANCE_COLOR_STR)]]
        IN [path |-> <<"topics", t.name>>,
            node |-> [label |-> t.name,
                      icon |-> "Flag",
                      fields |-> IF isPoseWithCovarianceStamped(t)
                                 THEN covariance @@ fields
                                 ELSE fields,
                      visible |-> Nullish(c, "visible", TRUE),
                      handler |-> "handleSettingsAction"]]
      pose == SelectSeq(topics, eligible)
  IN [i \in DOMAIN pose |-> entry(pose[i])]

settingsNodes(cfg, topics) ==
  LET isPoseStamped(t) == t.datatype \in POSE_STAMPED_DATATYPES
      isPoseWithCovarianceStamped(t) ==
        IF isPoseStamped(t) THEN FALSE
        ELSE t.datatype \in POSE_WITH_COVARIANCE_STAMPED_DATATYPES
      eligible(t) == isPoseStamped(t) \/ isPoseWithCovarianceStamped(t)
      entry(t) ==
        LET c == UserSettings(cfg, t.name)
            fields == [scale |-> [label |-> "Scale", input |-> "vec3",
                                  value |-> Nullish(c, "scale", DEFAULT_SCALE)],
                       color |-> [label |-> "Color", input |-> "rgba",
                                  value |-> Nullish(c, "color", DEFAULT_COLOR_STR)]]
            showCovariance == Nullish(c, "showCovariance", TRUE)
            covarianceColor == Nullish(c, "covarianceColor", DEFAULT_COVARIANCE_COLOR_STR)
            withShow == ("showCovariance" :> [label |-> "Covariance", input |-> "boolean",
                                              value |-> showCovariance]) @@ fields
            withColor == ("covarianceColor" :> [label |-> "Covariance Color",
                                                input |-> "rgba",
                                                value |-> covarianceColor]) @@ withShow
        IN [path |-> <<"topics", t.name>>,
            node |-> [label |-> t.name,
                      icon |-> "Flag",
                      fields |-> IF isPoseWithCovarianceStamped(t)
                                 THEN IF showCovariance THEN withColor ELSE withShow
                                 ELSE fields,
                      visible |-> Nullish(c, "visible", TRUE),
                      handler |-> "handleSettingsAction"]]
      pose == SelectSeq(topics, eligible)
  IN [i \in DOMAIN pose |-> entry(pose[i])]

-----------------------------------------------------------------------------
\* Specification

\* The extension after its construction: nothing persisted, no Renderable.
InitPoses ==
  /\ config = [topics |-> EmptyObject, transforms |-> EmptyObject]
  /\ renderables = EmptyObject
  /\ poseObjs = <<>>
  /\ arrows = <<>>
  /\ spheres = <<>>
  /\ now = 0
  /\ edits = 0

\* No settings resolution is followed in isolation.
IdleMerge ==
  [defaults |-> DEFAULT_SETTINGS, override1 |-> EmptyObject, override2 |-> EmptyObject,
   settings |-> DEFAULT_SETTINGS, step |-> 0]

\* defaultConfig of the diagnostics summary, before any diagnostics message.
InitDiagnostics ==
  /\ diagnostics = EmptyObject
  /\ pinnedIds = <<>>
  /\ hardwareIdFilter = <<>>
  /\ minLevel = 0
  /\ sortByLevel = TRUE

\* new Chart(node, {type, data, options}): the scales Chart.js derives from
\* the scale options, the extent of the data and the size of the canvas.
\* An axis without min or max in its options takes it from the data.
buildScales(scaleOptions, data, width, height) ==
  [id \in DOMAIN scaleOptions |->
     [id |-> id,
      left |-> IF id = "y" THEN 0 ELSE 30,
      right |-> IF id = "y" THEN 30 ELSE width,
      top |-> IF id = "y" THEN 0 ELSE height - 20,
      bottom |-> IF id = "y" THEN height - 20 ELSE height,
      min |-> IF "min" \in DOMAIN scaleOptions[id] THEN scaleOptions[id].min ELSE data.min,
      max |-> IF "max" \in DOMAIN scaleOptions[id] THEN scaleOptions[id].max ELSE data.max]]

\* The chart of a manager constructed over a 300 x 200 canvas with one axis.
ConstructedChart ==
  LET scaleOptions == [x |-> EmptyObject]
      data == [min |-> 0, max |-> 10]
  IN [options |-> [scales |-> scaleOptions, plugins |-> EmptyObject],
      data |-> data,
      width |-> 300,
      height |-> 200,
      scales |-> buildScales(scaleOptions, data, 300, 200),
      destroyed |-> FALSE]

\* The worker before any manager is constructed in it: the zoom plugin has its
\* own start hook, no listener is registered anywhere.
InitTargets ==
  /\ zoomPluginStart = <<>>
  /\ managers = <<>>
  /\ canvasListeners = {}
  /\ calls = <<>>

InitChart ==
  /\ chartInstance = ConstructedChart
  /\ rpcResult = <<>>
  /\ lastDatalabelClickContext = <<>>
  /\ datalabel = <<>>
  /\ InitTargets

Init ==
  /\ InitPoses
  /\ merge = IdleMerge
  /\ InitDiagnostics
  /\ InitChart

Apply(s) ==
  /\ config' = s.config
  /\ renderables' = s.renderables
  /\ poseObjs' = s.poseObjs
  /\ arrows' = s.arrows
  /\ spheres' = s.spheres
  /\ UNCHANGED <<merge, diagVars, chartVars, targetVars>>

handlePoseStamped(topic, message) ==
  /\ now < MaxTime
  /\ now' = now + 1
  /\ LET poseMessage == normalizePoseStamped(message)
         receiveTime == toNanoSec(ReceiveTime(now'))
     IN Apply(addPose(Scene, topic, poseMessage, receiveTime))
  /\ UNCHANGED edits

handlePoseWithCovariance(topic, message) ==
  /\ now < MaxTime
  /\ now' = now + 1
  /\ LET poseMessage == normalizePoseWithCovarianceStamped(message)
         receiveTime == toNanoSec(ReceiveTime(now'))
     IN Apply(addPose(Scene, topic, poseMessage, receiveTime))
  /\ UNCHANGED edits

OnSettingsEdit(action) ==
  /\ edits < MaxEdits
  /\ edits' = edits + 1
  /\ Apply(handleSettingsAction(Scene, action))
  /\ UNCHANGED now

Dispose(topic) ==
  /\ Apply(disposeTopic(Scene, topic))
  /\ UNCHANGED <<now, edits>>

DisposeAll ==
  /\ Apply(disposeAll(Scene))
  /\ UNCHANGED <<now, edits>>

Next ==
  \/ \E e \in PoseStampedEvents : handlePoseStamped(e[1], e[2])
  \/ \E e \in PoseWithCovarianceEvents : handlePoseWithCovariance(e[1], e[2])
  \/ \E a \in SettingsActions : OnSettingsEdit(a)
  \/ \E t \in Topics : Dispose(t)
  \/ DisposeAll

Spec == Init /\ [][Next]_vars

-----------------------------------------------------------------------------
\* The resolution of the effective settings, on its own
\*
\* addPose resolves {...DEFAULT_SETTINGS, ...userSettings}; every settings edit
\* resolves {...settings, ...userSettings} onto the settings resolved before.

\* An optional field of a partial settings object: c is <<>> or <<value>>.
Opt(k, c) == IF c = <<>> THEN EmptyObject ELSE k :> c[1]

\* Partial<LayerSettingsPose>: any subset of the fields, with edited values.
Overrides ==
  {Opt("visible", v) @@ Opt("scale", sc) @@ Opt("color", c) @@ Opt("showCovariance", sh) :
     v \in {<<>>, <<FALSE>>},
     sc \in {<<>>, <<(<<200, 30, 30>>)>>},
     c \in {<<>>, <<"#ff0000">>},
     sh \in {<<>>, <<FALSE>>, <<TRUE>>}}

\* Settings a resolution starts from: the defaults, or settings resolved before.
BaseSettings ==
  {DEFAULT_SETTINGS,
   [DEFAULT_SETTINGS EXCEPT !.showCovariance = FALSE, !.color = "#00ff0080"]}

InitMerge ==
  /\ InitPoses
  /\ InitDiagnostics
  /\ InitChart
  /\ merge \in {[defaults |-> d, override1 |-> o1, override2 |-> o2,
                  settings |-> d, step |-> 0] :
                   d \in BaseSettings, o1 \in Overrides, o2 \in Overrides}

\* A resolution followed in isolation touches nothing else.
OnlyMerge == UNCHANGED <<posesVars, diagVars, chartVars, targetVars>>

\* {...DEFAULT_SETTINGS, ...userSettings} with the first override.
ResolveFirst ==
  /\ merge.step = 0
  /\ merge' = [merge EXCEPT !.settings = Spread(merge.settings, merge.override1),
                            !.step = 1]
  /\ OnlyMerge

\* {...settings, ...userSettings} with the second override.
ResolveSecond ==
  /\ merge.step = 1
  /\ merge' = [merge EXCEPT !.settings = Spread(merge.settings, merge.override2),
                            !.step = 2]
  /\ OnlyMerge

\* The same resolution once more (an edit that changes nothing saved).
ResolveAgain ==
  /\ merge.step = 2
  /\ merge' = [merge EXCEPT !.settings = Spread(merge.settings, merge.override2),
                            !.step = 3]
  /\ OnlyMerge

NextMerge ==
  \/ ResolveFirst
  \/ ResolveSecond
  \/ ResolveAgain

SpecMerge == InitMerge /\ [][NextMerge]_vars

-----------------------------------------------------------------------------
\* The delivery of partial messages
\*
\* PartialMessage<T>: every field of the message may be omitted, at any depth
\* the normalizers look at.

PartialHeaders ==
  {Opt("frame_id", f) @@ Opt("stamp", st) :
     f \in {<<>>, <<"map">>}, st \in {<<>>, <<[sec |-> 1, nsec |-> 500]>>}}

PartialPoses ==
  {Opt("position", p) @@ Opt("orientation", o) :
     p \in {<<>>, <<PoseA.position>>}, o \in {<<>>, <<PoseA.orientation>>}}

OptionalOf(S) == {<<>>} \cup {<<x>> : x \in S}

\* PartialMessage<PoseStamped>
PartialPoseStamped ==
  {Opt("header", h) @@ Opt("pose", p) :
     h \in OptionalOf(PartialHeaders), p \in OptionalOf(PartialPoses)}

\* PartialMessage<PoseWithCovariance>
PartialPoseWithCovariance ==
  {Opt("pose", p) @@ Opt("covariance", K) :
     p \in OptionalOf(PartialPoses), K \in {<<>>, <<CovExample>>}}

\* PartialMessage<PoseWithCovarianceStamped>
PartialPoseWithCovarianceStamped ==
  {Opt("header", h) @@ Opt("pose", p) :
     h \in OptionalOf(PartialHeaders), p \in OptionalOf(PartialPoseWithCovariance)}

NextPartial ==
  \/ \E m \in PartialPoseStamped : handlePoseStamped("/pose", m)
  \/ \E m \in PartialPoseWithCovarianceStamped : handlePoseWithCovariance("/pose", m)

SpecPartial == Init /\ [][NextPartial]_vars

-----------------------------------------------------------------------------
\* The diagnostics summary: strings
\*
\* A string is the sequence of its characters, so that split, toLowerCase,
\* the substring test and the lexical order are computed on them.

CharCode ==
  [c \in {"0", "1", "2", "3", "4", "5", "6", "7", "8", "9",
          ":", "A", "R", "a", "b", "e", "m", "r", "s", "|"} |->
     CASE c = "0" -> 48 [] c = "1" -> 49 [] c = "2" -> 50 [] c = "3" -> 51
       [] c = "4" -> 52 [] c = "5" -> 53 [] c = "6" -> 54 [] c = "7" -> 55
       [] c = "8" -> 56 [] c = "9" -> 57 [] c = ":" -> 58
       [] c = "A" -> 65 [] c = "R" -> 82
       [] c = "a" -> 97 [] c = "b" -> 98 [] c = "e" -> 101 [] c = "m" -> 109
       [] c = "r" -> 114 [] c = "s" -> 115 [] c = "|" -> 124]

toLowerCase(str) ==
  [i \in DOMAIN str |-> CASE str[i] = "A" -> "a" [] str[i] = "R" -> "r" [] OTHER -> str[i]]

\* str.includes(part)
includes(str, part) ==
  \E i \in 0..(Len(str) - Len(part)) : SubSeq(str, i + 1, i + Len(part)) = part

\* a < b in the order of the character codes
StrLess(a, b) ==
  \E k \in 0..Len(a) :
    /\ k <= Len(b)
    /\ SubSeq(a, 1, k) = SubSeq(b, 1, k)
    /\ \/ k = Len(a) /\ k < Len(b)
       \/ k < Len(a) /\ k < Len(b) /\ CharCode[a[k + 1]] < CharCode[b[k + 1]]

\* str.split(sep)
RECURSIVE split(_, _)
split(str, sep) ==
  IF \E i \in 1..Len(str) : str[i] = sep
  THEN LET i == CHOOSE j \in 1..Len(str) : str[j] = sep /\ \A h \in 1..(j - 1) : str[h] # sep
       IN <<SubSeq(str, 1, i - 1)>> \o split(SubSeq(str, i + 1, Len(str)), sep)
  ELSE <<str>>

\* String(n) of a level code (the key Array.prototype.sort compares): its
\* decimal digits.
RECURSIVE LevelString(_)
LevelString(n) ==
  LET digit == <<"0", "1", "2", "3", "4", "5", "6", "7", "8", "9">>[(n % 10) + 1]
  IN IF n < 10 THEN <<digit>> ELSE LevelString(n \div 10) \o <<digit>>

\* [].concat(...seqs)
RECURSIVE concat(_)
concat(seqs) ==
  IF seqs = <<>> THEN <<>> ELSE Head(seqs) \o concat(Tail(seqs))

Range(seq) == {seq[i] : i \in DOMAIN seq}

-----------------------------------------------------------------------------
\* The diagnostics summary: the panel

\* DiagnosticStatus levels: OK, WARN, ERROR, STALE.
KNOWN_LEVELS == {0, 1, 2, 3}

\* The entities the diagnostics topic reports, <<hardware_id, name>>, in the
\* order the map of diagnostics is iterated in.
Entities ==
  << <<(<<"a", "r", "m">>), (<<"m">>)>>,
     <<(<<"A", "r", "m">>), (<<"e">>)>>,
     <<(<<"b", "a", "s", "e">>), (<<"b">>)>> >>

\* The levels the reported statuses have: ok, error, stale.
ReportedLevels == {0, 2, 3}

\* The texts typed into the filter box.
FilterTexts == {<<>>, <<"a", "R">>}

getDiagnosticId(hardware_id, name) ==
  <<"|">> \o hardware_id \o <<"|">> \o name \o <<"|">>

getDisplayName(hardware_id, name) == hardware_id \o <<":">> \o name

\* The DiagnosticInfo computed from a status of entity e with the given level.
DiagnosticInfo(e, level) ==
  [id |-> getDiagnosticId(e[1], e[2]),
   displayName |-> getDisplayName(e[1], e[2]),
   status |-> [level |-> level, hardware_id |-> e[1], name |-> e[2]]]

\* toggle(array, item): the array without the item if it has it, with the
\* item at its end if not.
toggle(array, item) ==
  IF item \in Range(array)
  THEN SelectSeq(array, LAMBDA el : el # item)
  ELSE Append(array, item)

\* sortBy(nodes, displayName), the display names being distinct.
RECURSIVE sortByDisplayName(_)
sortByDisplayName(S) ==
  IF S = {}
  THEN <<>>
  ELSE LET first == CHOOSE n \in S :
                      \A o \in S \ {n} : StrLess(n.displayName, o.displayName)
       IN <<first>> \o sortByDisplayName(S \ {first})

\* filterAndSortDiagnostics: the nodes that are not pinned and whose hardware
\* id contains the filter text, whatever the case, by display name.
filterAndSortDiagnostics(nodes, filterText, pinned) ==
  LET unpinnedNodes == SelectSeq(nodes, LAMBDA n : n.id \notin Range(pinned))
      matching == SelectSeq(unpinnedNodes,
                            LAMBDA n : includes(toLowerCase(n.status.hardware_id),
                                                toLowerCase(filterText)))
  IN sortByDisplayName(Range(matching))

\* Every DiagnosticInfo of the map, in its iteration order.
AllDiagnostics ==
  concat([i \in DOMAIN Entities |->
            LET hw == Entities[i][1]
                name == Entities[i][2]
            IN IF hw \in DOMAIN diagnostics /\ name \in DOMAIN diagnostics[hw]
               THEN <<diagnostics[hw][name]>>
               ELSE <<>>])

\* getDiagnosticsByLevel(diagnostics): level -> the infos of that level.
getDiagnosticsByLevel ==
  [level \in {AllDiagnostics[i].status.level : i \in DOMAIN AllDiagnostics} |->
     SelectSeq(AllDiagnostics, LAMBDA n : n.status.level = level)]

\* keys.sort().reverse(): sort() compares the keys as strings.
RECURSIVE sortReverse(_)
sortReverse(keys) ==
  IF keys = {}
  THEN <<>>
  ELSE LET last == CHOOSE k \in keys :
                     \A o \in keys \ {k} : StrLess(LevelString(o), LevelString(k))
       IN <<last>> \o sortReverse(keys \ {last})

\* Variant: the pinned nodes by display name.
pinnedNodes_ByDisplayName ==
  sortByDisplayName({n \in Range(AllDiagnostics) : n.id \in Range(pinnedIds)})

\* filterMap(pinnedIds, ...): the known DiagnosticInfo of each pinned id.
pinnedNodes ==
  concat([i \in DOMAIN pinnedIds |->
            LET parts == split(pinnedIds[i], "|")
            IN IF Len(parts) < 3
               THEN <<>>
               ELSE LET trimmedHardwareId == parts[2]
                        name == parts[3]
                    IN IF /\ trimmedHardwareId \in DOMAIN diagnostics
                          /\ name \in DOMAIN diagnostics[trimmedHardwareId]
                       THEN <<diagnostics[trimmedHardwareId][name]>>
                       ELSE <<>>])

\* Variant: one pass over all levels, whatever sortByLevel is.
sortedNodes_OnePass ==
  filterAndSortDiagnostics(AllDiagnostics, hardwareIdFilter, pinnedIds)

sortedNodes ==
  LET nodesByLevel == getDiagnosticsByLevel
      levels == sortReverse(DOMAIN nodesByLevel)
  IN IF sortByLevel
     THEN concat([i \in DOMAIN levels |->
                    filterAndSortDiagnostics(nodesByLevel[levels[i]],
                                             hardwareIdFilter, pinnedIds)])
     ELSE filterAndSortDiagnostics(
            concat([i \in DOMAIN levels |-> nodesByLevel[levels[i]]]),
            hardwareIdFilter, pinnedIds)

\* Variant: the minimum level hides only rows that are not pinned.
nodes_PinnedUnfiltered ==
  IF diagnostics = EmptyObject
  THEN <<>>
  ELSE pinnedNodes \o SelectSeq(sortedNodes, LAMBDA n : n.status.level >= minLevel)

\* The rows of the summary, top to bottom.
nodes ==
  IF diagnostics = EmptyObject
  THEN <<>>
  ELSE SelectSeq(pinnedNodes \o sortedNodes, LAMBDA n : n.status.level >= minLevel)

\* What the summary memo renders: the empty state while no diagnostics are
\* known, nothing when there is no row, else the list of the rows.
summary ==
  LET rows == nodes
  IN IF diagnostics = EmptyObject THEN [kind |-> "EmptyState", rows |-> <<>>]
     ELSE IF Len(rows) = 0 THEN [kind |-> "ReactNull", rows |-> <<>>]
     ELSE [kind |-> "List", rows |-> rows]

\* The panel as it is loaded: the default configuration, or a saved one that
\* has a pinned id.
InitSummary ==
  /\ InitPoses
  /\ merge = IdleMerge
  /\ InitChart
  /\ diagnostics = EmptyObject
  /\ pinnedIds \in {<<>>, <<getDiagnosticId(Entities[3][1], Entities[3][2])>>}
  /\ hardwareIdFilter = <<>>
  /\ minLevel = 0
  /\ sortByLevel = TRUE

\* The summary touches nothing else.
OnlySummary == UNCHANGED <<posesVars, merge, chartVars, targetVars>>

\* A diagnostics message reports entity e with a level.
ReceiveDiagnostic(e, level) ==
  /\ LET hw == e[1]
         byName == IF hw \in DOMAIN diagnostics THEN diagnostics[hw] ELSE EmptyObject
     IN diagnostics' = (hw :> ((e[2] :> DiagnosticInfo(e, level)) @@ byName)) @@ diagnostics
  /\ UNCHANGED <<pinnedIds, hardwareIdFilter, minLevel, sortByLevel>>
  /\ OnlySummary

\* Variant: a newly pinned id goes to the front of the list.
togglePinned_Prepends(info) ==
  /\ info \in Range(nodes)
  /\ pinnedIds' = IF info.id \in Range(pinnedIds)
                  THEN SelectSeq(pinnedIds, LAMBDA el : el # info.id)
                  ELSE <<info.id>> \o pinnedIds
  /\ UNCHANGED <<diagnostics, hardwareIdFilter, minLevel, sortByLevel>>
  /\ OnlySummary

\* The pin of a row is clicked.
togglePinned(info) ==
  /\ info \in Range(nodes)
  /\ pinnedIds' = toggle(pinnedIds, info.id)
  /\ UNCHANGED <<diagnostics, hardwareIdFilter, minLevel, sortByLevel>>
  /\ OnlySummary

\* The filter box changes.
SetHardwareIdFilter(text) ==
  /\ hardwareIdFilter' = text
  /\ UNCHANGED <<diagnostics, pinnedIds, minLevel, sortByLevel>>
  /\ OnlySummary

\* An option of the level dropdown is chosen.
SetMinLevel(level) ==
  /\ minLevel' = level
  /\ UNCHANGED <<diagnostics, pinnedIds, hardwareIdFilter, sortByLevel>>
  /\ OnlySummary

\* actionHandler: an update of the settings tree, here of sortByLevel.
actionHandler(action) ==
  /\ action.action = "update"
  /\ action.payload.path = <<"general", "sortByLevel">>
  /\ sortByLevel' = action.payload.value
  /\ UNCHANGED <<diagnostics, pinnedIds, hardwareIdFilter, minLevel>>
  /\ OnlySummary

NextSummary ==
  \/ \E i \in DOMAIN Entities, level \in ReportedLevels :
       ReceiveDiagnostic(Entities[i], level)
  \/ \E info \in Range(nodes) : togglePinned(info)
  \/ \E text \in FilterTexts : SetHardwareIdFilter(text)
  \/ \E level \in KNOWN_LEVELS : SetMinLevel(level)
  \/ \E b \in BOOLEAN : actionHandler(Update(<<"general", "sortByLevel">>, b))

SpecSummary == InitSummary /\ [][NextSummary]_vars

-----------------------------------------------------------------------------
\* The chart bridge
\*
\* Chart.js and its zoom plugin are libraries: the model keeps of a chart its
\* scale options, the extent of its data, its size and its scales, and of an
\* event what the listeners of the zoom plugin make of it.

\* Ranges the zoom plugin zooms or pans an axis to.
ZoomRanges == {<<2, 8>>, <<4, 6>>, <<5, 15>>}

\* What the listeners make of an event: nothing, or a new range for an axis.
Outcomes ==
  {<<>>} \cup {<<[axis |-> a, range |-> r]>> : a \in {"x", "y"}, r \in ZoomRanges}

\* The arguments of update().
UpdateArgs ==
  {[data |-> d, options |-> [scales |-> sc, plugins |-> pl], width |-> w, height |-> h] :
     d \in {[min |-> 0, max |-> 10], [min |-> 1, max |-> 20]},
     sc \in {EmptyObject,
             [x |-> EmptyObject, y |-> EmptyObject],
             [x |-> [min |-> 0, max |-> 10]]},
     pl \in {EmptyObject, [datalabels |-> EmptyObject]},
     w \in {300, 400},
     h \in {200, 250}}

\* The contexts the datalabels plugin hands to a click listener: a dataset and
\* the index of the clicked label in its data.
DatalabelContexts ==
  {[dataset |-> [data |-> <<"p1", "p2">>], dataIndex |-> i] : i \in {1, 2}}

\* What the datalabels plugin makes of an event: no label is hit, or the
\* label of a context is clicked.
LabelClicks == {<<>>} \cup {<<c>> : c \in DatalabelContexts}

\* addFunctionsToConfig(config): options with a datalabels entry get the click
\* listener, the formatter and the color function; other options are left alone.
addFunctionsToConfig(chartOptions) ==
  IF "datalabels" \in DOMAIN chartOptions.plugins
  THEN [chartOptions EXCEPT !.plugins.datalabels =
          [listeners |-> {"click"}, formatter |-> "label", color |-> "labelColor"] @@ @]
  ELSE chartOptions

\* lodash merge(object, source) on scale options: the axes of both, the
\* fields of the source over those of the object.
lodashMerge(object, source) ==
  [id \in DOMAIN object \cup DOMAIN source |->
     IF id \notin DOMAIN source THEN object[id]
     ELSE IF id \notin DOMAIN object THEN source[id]
     ELSE source[id] @@ object[id]]

\* instance.update(): the scales are derived anew.
chartUpdate(instance) ==
  [instance EXCEPT !.scales = buildScales(instance.options.scales, instance.data,
                                          instance.width, instance.height)]

\* The zoom plugin handles an event: it writes the new range of the axis into
\* the scale options and updates the chart; an axis the chart does not have
\* is left alone.
zoomHandler(instance, outcome) ==
  IF outcome = <<>> \/ outcome[1].axis \notin DOMAIN instance.options.scales
  THEN instance
  ELSE chartUpdate([instance EXCEPT !.options.scales[outcome[1].axis] =
                      [min |-> outcome[1].range[1], max |-> outcome[1].range[2]] @@ @])

\* Variant: the snapshot leaves the y axis out.
getScales_WithoutY(instance) ==
  [id \in DOMAIN instance.scales \ {"y"} |->
     [left |-> instance.scales[id].left,
      right |-> instance.scales[id].right,
      min |-> instance.scales[id].min,
      max |-> instance.scales[id].max]]

getScales(instance) ==
  [id \in DOMAIN instance.scales |->
     [left |-> instance.scales[id].left,
      right |-> instance.scales[id].right,
      min |-> instance.scales[id].min,
      max |-> instance.scales[id].max]]

\* The chart bridge touches nothing else.
OnlyChart == UNCHANGED <<posesVars, merge, diagVars, targetVars>>

\* _fakeNodeEvents.emit("wheel", event); return this.getScales()
wheel(outcome) ==
  /\ chartInstance' = zoomHandler(chartInstance, outcome)
  /\ rpcResult' = <<getScales(chartInstance')>>
  /\ UNCHANGED <<lastDatalabelClickContext, datalabel>>
  /\ OnlyChart

\* _fakeNodeEvents.emit("mousedown", event); return this.getScales()
mousedown(outcome) ==
  /\ chartInstance' = zoomHandler(chartInstance, outcome)
  /\ rpcResult' = <<getScales(chartInstance')>>
  /\ UNCHANGED <<lastDatalabelClickContext, datalabel>>
  /\ OnlyChart

\* _fakeNodeEvents.emit("mousemove", event); return this.getScales()
mousemove(outcome) ==
  /\ chartInstance' = zoomHandler(chartInstance, outcome)
  /\ rpcResult' = <<getScales(chartInstance')>>
  /\ UNCHANGED <<lastDatalabelClickContext, datalabel>>
  /\ OnlyChart

\* _fakeDocumentEvents.emit("mouseup", event); return this.getScales()
mouseup(outcome) ==
  /\ chartInstance' = zoomHandler(chartInstance, outcome)
  /\ rpcResult' = <<getScales(chartInstance')>>
  /\ UNCHANGED <<lastDatalabelClickContext, datalabel>>
  /\ OnlyChart

\* $zoom.panStartHandler(event); return this.getScales()
panstart(outcome) ==
  /\ chartInstance' = zoomHandler(chartInstance, outcome)
  /\ rpcResult' = <<getScales(chartInstance')>>
  /\ UNCHANGED <<lastDatalabelClickContext, datalabel>>
  /\ OnlyChart

\* $zoom.panHandler(event); return this.getScales()
panmove(outcome) ==
  /\ chartInstance' = zoomHandler(chartInstance, outcome)
  /\ rpcResult' = <<getScales(chartInstance')>>
  /\ UNCHANGED <<lastDatalabelClickContext, datalabel>>
  /\ OnlyChart

\* $zoom.panEndHandler(event); return this.getScales()
panend(outcome) ==
  /\ chartInstance' = zoomHandler(chartInstance, outcome)
  /\ rpcResult' = <<getScales(chartInstance')>>
  /\ UNCHANGED <<lastDatalabelClickContext, datalabel>>
  /\ OnlyChart

\* Variant: the scales are read before the chart is updated and resized.
update_SnapshotFirst(args) ==
  /\ chartInstance' =
       chartUpdate([chartInstance EXCEPT
                      !.options.plugins = addFunctionsToConfig(args.options).plugins,
                      !.options.scales = lodashMerge(@, args.options.scales),
                      !.data = args.data,
                      !.width = args.width,
                      !.height = args.height])
  /\ rpcResult' = <<getScales(chartInstance)>>
  /\ UNCHANGED <<lastDatalabelClickContext, datalabel>>
  /\ OnlyChart

update(args) ==
  /\ LET merged == [chartInstance EXCEPT
                      !.options.plugins = addFunctionsToConfig(args.options).plugins,
                      !.options.scales = lodashMerge(@, args.options.scales),
                      !.data = args.data]
         updated == chartUpdate(merged)
     IN chartInstance' =
          IF updated.width # args.width \/ updated.height # args.height
          THEN chartUpdate([updated EXCEPT !.width = args.width, !.height = args.height])
          ELSE updated
  /\ rpcResult' = <<getScales(chartInstance')>>
  /\ UNCHANGED <<lastDatalabelClickContext, datalabel>>
  /\ OnlyChart

\* this._chartInstance?.destroy(): the Chart is destroyed; the manager keeps
\* its reference to it, and the destroyed Chart keeps its options, data and scales.
destroy ==
  /\ chartInstance' = [chartInstance EXCEPT !.destroyed = TRUE]
  /\ UNCHANGED <<rpcResult, lastDatalabelClickContext, datalabel>>
  /\ OnlyChart

\* notifyPlugins("beforeEvent", {event}): the datalabels plugin calls the click
\* listener of the options, if they have one, with the context of the label
\* the event clicks; the listener stores the context.
notifyPlugins(instance, stored, click) ==
  IF /\ click # <<>>
     /\ "datalabels" \in DOMAIN instance.options.plugins
     /\ "click" \in instance.options.plugins.datalabels.listeners
  THEN click
  ELSE stored

\* Variant: the stored context is not cleared.
getDatalabelAtEvent_KeepsContext(click) ==
  LET context == notifyPlugins(chartInstance, lastDatalabelClickContext, click)
  IN /\ lastDatalabelClickContext' = context
     /\ datalabel' = IF context = <<>> THEN <<>>
                     ELSE <<context[1].dataset.data[context[1].dataIndex]>>
     /\ UNCHANGED <<chartInstance, rpcResult>>
     /\ OnlyChart

getDatalabelAtEvent(click) ==
  LET context == notifyPlugins(chartInstance, lastDatalabelClickContext, click)
  IN /\ lastDatalabelClickContext' = <<>>
     /\ datalabel' = IF context = <<>> THEN <<>>
                     ELSE <<context[1].dataset.data[context[1].dataIndex]>>
     /\ UNCHANGED <<chartInstance, rpcResult>>
     /\ OnlyChart

NextChart ==
  \/ \E o \in Outcomes : wheel(o)
  \/ \E o \in Outcomes : mousedown(o)
  \/ \E o \in Outcomes : mousemove(o)
  \/ \E o \in Outcomes : mouseup(o)
  \/ \E o \in Outcomes : panstart(o)
  \/ \E o \in Outcomes : panmove(o)
  \/ \E o \in Outcomes : panend(o)
  \/ \E args \in UpdateArgs : update(args)
  \/ destroy
  \/ \E click \in LabelClicks : getDatalabelAtEvent(click)

InitBridge ==
  /\ InitPoses
  /\ merge = IdleMerge
  /\ InitDiagnostics
  /\ InitChart

SpecChart == InitBridge /\ [][NextChart]_vars
-----------------------------------------------------------------------------
\* The chart bridge: the emulated event targets and the zoom plugin's start hook
\*
\* A listener is a handler of the plugins of one chart. The start hook of the
\* zoom plugin is the plugin's own hook under the wrappers put around it.

\* Number of managers constructed in one worker.
MaxManagers == 2

\* eventemitter3: the listeners of an event, in the order they were added.
listeners(emitter, eventName) ==
  IF eventName \in DOMAIN emitter THEN emitter[eventName] ELSE <<>>

\* emitter.on(eventName, fn)
on(emitter, eventName, fn) ==
  (eventName :> Append(listeners(emitter, eventName), fn)) @@ emitter

\* emitter.off(eventName, fn): every registration of fn for the event goes.
off(emitter, eventName, fn) ==
  LET left == SelectSeq(listeners(emitter, eventName), LAMBDA l : l # fn)
  IN IF left = <<>>
     THEN [e \in DOMAIN emitter \ {eventName} |-> emitter[e]]
     ELSE (eventName :> left) @@ emitter

\* emitter.emit(eventName, event): the listeners called, each registration
\* once, in order.
emit(emitter, eventName) == listeners(emitter, eventName)

\* Variant: a listener is registered again each time it is added.
addEventListener_NoDedupe(emitter, eventName, fn) ==
  IF fn = <<>> THEN emitter ELSE on(emitter, eventName, fn[1])

\* addEventListener(emitter)(eventName, fn); fn is <<>> when not given.
addEventListener(emitter, eventName, fn) ==
  LET existing == listeners(emitter, eventName)
  IN IF fn = <<>> \/ fn[1] \in Range(existing)
     THEN emitter
     ELSE on(emitter, eventName, fn[1])

\* removeEventListener(emitter)(eventName, fn)
removeEventListener(emitter, eventName, fn) ==
  IF fn # <<>> THEN off(emitter, eventName, fn[1]) ELSE emitter

\* A handler function of the plugins of chart c.
Handler(c, h) == [chart |-> c, handler |-> h]

\* What the zoom plugin's own start hook registers for chart c: on the canvas
\* of chart.ctx and on its ownerDocument.
ZoomListeners(c) ==
  <<<<"node", "wheel", Handler(c, "wheel")>>,
    <<"node", "mousedown", Handler(c, "mouseDown")>>,
    <<"document", "mouseup", Handler(c, "mouseUp")>>>>

\* fakeNode.addEventListener or fakeNode.ownerDocument.addEventListener of
\* manager m.
fakeNodeAdd(mgrs, m, target, eventName, fn) ==
  IF target = "node"
  THEN [mgrs EXCEPT ![m].fakeNodeEvents = addEventListener(@, eventName, fn)]
  ELSE [mgrs EXCEPT ![m].fakeDocumentEvents = addEventListener(@, eventName, fn)]

\* fakeNode.removeEventListener or fakeNode.ownerDocument.removeEventListener.
fakeNodeRemove(mgrs, m, target, eventName, fn) ==
  IF target = "node"
  THEN [mgrs EXCEPT ![m].fakeNodeEvents = removeEventListener(@, eventName, fn)]
  ELSE [mgrs EXCEPT ![m].fakeDocumentEvents = removeEventListener(@, eventName, fn)]

\* The zoom plugin's own start hook on chart c: its listeners are added to
\* chart.ctx.canvas, the real canvas or the fake node put in its place.
RECURSIVE registerAll(_, _, _)
registerAll(mgrs, m, ls) ==
  IF ls = <<>> THEN mgrs
  ELSE registerAll(fakeNodeAdd(mgrs, m, ls[1][1], ls[1][2], <<ls[1][3]>>), m, Tail(ls))

origStart(w, c) ==
  LET canvas == w.managers[c].ctx.canvas
  IN IF canvas.fake
     THEN [w EXCEPT !.managers = registerAll(@, canvas.of, ZoomListeners(c))]
     ELSE [w EXCEPT !.canvasListeners =
             @ \cup {<<canvas.of, l[1], l[2], l[3]>> : l \in Range(ZoomListeners(c))}]

\* A call of ZoomPlugin.start on chart c. A bound copy calls what it is bound
\* to; the replacement of the constructor of manager m puts the fake node of m
\* in chart.ctx, calls the hook it replaced and puts the ctx back.
RECURSIVE callStart(_, _, _)
callStart(hook, w, c) ==
  IF hook = <<>> THEN origStart(w, c)
  ELSE IF Head(hook).wrap = "bind" THEN callStart(Tail(hook), w, c)
  ELSE LET ctx == w.managers[c].ctx
           swapped == [w EXCEPT !.managers[c].ctx = [canvas |-> [fake |-> TRUE,
                                                                   of |-> Head(hook).fakeNode]]]
           res == callStart(Tail(hook), swapped, c)
       IN [res EXCEPT !.managers[c].ctx = ctx]

\* The event targets touch nothing else.
OnlyTargets == UNCHANGED <<posesVars, merge, diagVars, chartVars>>

\* Variant: the start hook of the zoom plugin is not put back.
constructor_KeepsPatch ==
  /\ Len(managers) < MaxManagers
  /\ LET c == Len(managers) + 1
         fresh == [ctx |-> [canvas |-> [fake |-> FALSE, of |-> c]],
                   fakeNodeEvents |-> EmptyObject,
                   fakeDocumentEvents |-> EmptyObject]
         origZoomStart == <<[wrap |-> "bind"]>> \o zoomPluginStart
         patched == <<[wrap |-> "patch", fakeNode |-> c]>> \o origZoomStart
         w == callStart(patched,
                        [managers |-> Append(managers, fresh),
                         canvasListeners |-> canvasListeners], c)
     IN /\ managers' = w.managers
        /\ canvasListeners' = w.canvasListeners
        /\ zoomPluginStart' = patched
  /\ UNCHANGED calls
  /\ OnlyTargets

\* new ChartJSManager(...): the emitters and the fake node are made, the start
\* hook is replaced, new Chart(...) starts its plugins, the hook is put back.
constructor ==
  /\ Len(managers) < MaxManagers
  /\ LET c == Len(managers) + 1
         fresh == [ctx |-> [canvas |-> [fake |-> FALSE, of |-> c]],
                   fakeNodeEvents |-> EmptyObject,
                   fakeDocumentEvents |-> EmptyObject]
         origZoomStart == <<[wrap |-> "bind"]>> \o zoomPluginStart
         patched == <<[wrap |-> "patch", fakeNode |-> c]>> \o origZoomStart
         w == callStart(patched,
                        [managers |-> Append(managers, fresh),
                         canvasListeners |-> canvasListeners], c)
     IN /\ managers' = w.managers
        /\ canvasListeners' = w.canvasListeners
        /\ zoomPluginStart' = origZoomStart
  /\ UNCHANGED calls
  /\ OnlyTargets

\* What the plugins of a chart add and remove later on, <<target, event name,
\* handler>>: the wheel handler and another handler on the node, the mouseup
\* handler on the node, or no function at all.
ListenerArgs ==
  {<<"node", "wheel", <<"wheel">>>>,
   <<"node", "wheel", <<"pan">>>>,
   <<"node", "wheel", <<>>>>,
   <<"node", "mouseup", <<"mouseUp">>>>}

\* The function a plugin of chart m passes: its handler h, or none.
ListenerOf(m, h) == IF h = <<>> THEN <<>> ELSE <<Handler(m, h[1])>>

\* A plugin calls addEventListener of the fake node of manager m.
fakeNodeAddEventListener(m, a) ==
  /\ managers' = fakeNodeAdd(managers, m, a[1], a[2], ListenerOf(m, a[3]))
  /\ UNCHANGED <<zoomPluginStart, canvasListeners, calls>>
  /\ OnlyTargets

\* A plugin calls removeEventListener of the fake node of manager m.
fakeNodeRemoveEventListener(m, a) ==
  /\ managers' = fakeNodeRemove(managers, m, a[1], a[2], ListenerOf(m, a[3]))
  /\ UNCHANGED <<zoomPluginStart, canvasListeners, calls>>
  /\ OnlyTargets

PointerOperations == {"wheel", "mousedown", "mousemove", "mouseup"}

\* wheel, mousedown, mousemove and mouseup of manager m, as far as the
\* emitters go: the first three emit on the node, mouseup on the document.
pointerOperation(m, name) ==
  /\ calls' = CASE name = "wheel" -> emit(managers[m].fakeNodeEvents, "wheel")
                [] name = "mousedown" -> emit(managers[m].fakeNodeEvents, "mousedown")
                [] name = "mousemove" -> emit(managers[m].fakeNodeEvents, "mousemove")
                [] name = "mouseup" -> emit(managers[m].fakeDocumentEvents, "mouseup")
  /\ UNCHANGED <<zoomPluginStart, managers, canvasListeners>>
  /\ OnlyTargets

NextTargets ==
  \/ constructor
  \/ \E m \in DOMAIN managers, a \in ListenerArgs : fakeNodeAddEventListener(m, a)
  \/ \E m \in DOMAIN managers, a \in ListenerArgs : fakeNodeRemoveEventListener(m, a)
  \/ \E m \in DOMAIN managers, name \in PointerOperations : pointerOperation(m, name)

SpecTargets == InitBridge /\ [][NextTargets]_vars
-----------------------------------------------------------------------------
\* Vocabulary of the properties

\* References to the PoseRenderables that have not been disposed.
LiveIds == {i \in DOMAIN poseObjs : ~poseObjs[i].disposed}

LiveOn(topic) == {i \in LiveIds : poseObjs[i].name = topic}

UserDataOf(topic) == poseObjs[renderables[topic]].userData

\* The step is the delivery of some message on the topic.
PoseStampedStep(topic) ==
  \E e \in PoseStampedEvents : e[1] = topic /\ handlePoseStamped(e[1], e[2])

PoseWithCovarianceStep(topic) ==
  \E e \in PoseWithCovarianceEvents : e[1] = topic /\ handlePoseWithCovariance(e[1], e[2])

MessageStep(topic) == PoseStampedStep(topic) \/ PoseWithCovarianceStep(topic)

-----------------------------------------------------------------------------
\* C1.  The registry holds at most one Renderable per topic: at any time at most
\* one PoseRenderable that has not been disposed exists for a topic, it is the
\* one the registry names, and after a message on a topic there is exactly one.
C1_RegistryInv ==
  \A t \in Topics :
    /\ Cardinality(LiveOn(t)) <= 1
    /\ LiveOn(t) = IF t \in DOMAIN renderables THEN {renderables[t]} ELSE {}

C1_AfterMessage ==
  \A t \in Topics : MessageStep(t) => Cardinality(LiveOn(t)') = 1

\* C1: in every state at most one undisposed Renderable per topic, the one the
\* registry names; every message on a topic leaves exactly one for it.
C1_OneRenderablePerTopic == [](C1_RegistryInv) /\ [][C1_AfterMessage]_vars

\* Two messages have been delivered on one topic, whose first Renderable is
\* still the only one allocated.
C1_Witness ==
  /\ now = 2
  /\ \E t \in DOMAIN renderables :
       /\ renderables[t] = 1
       /\ UserDataOf(t).receiveTime = 2
       /\ Len(poseObjs) = 1

-----------------------------------------------------------------------------
\* C2.  A message on a topic without a Renderable creates exactly one Renderable
\* with exactly one arrow; afterwards the Renderable keeps that very arrow
\* object as its only arrow through every message and settings edit.
ArrowChildren(r) == {c \in r.children : c[1] = "arrow"}

C2_ArrowInv ==
  /\ Len(arrows) = Len(poseObjs)
  /\ \A i \in LiveIds :
       /\ poseObjs[i].userData.arrow \in DOMAIN arrows
       /\ ~arrows[poseObjs[i].userData.arrow].disposed
       /\ ArrowChildren(poseObjs[i]) = {<<"arrow", poseObjs[i].userData.arrow>>}
       /\ \A j \in LiveIds : j # i => poseObjs[j].userData.arrow # poseObjs[i].userData.arrow

C2_Creation ==
  \A t \in Topics :
    (t \notin DOMAIN renderables /\ MessageStep(t)) =>
       /\ Len(poseObjs') = Len(poseObjs) + 1
       /\ Len(arrows') = Len(arrows) + 1
       /\ renderables'[t] = Len(poseObjs')
       /\ poseObjs'[Len(poseObjs')].userData.arrow = Len(arrows')

C2_SameArrow ==
  \A i \in LiveIds :
    ~poseObjs'[i].disposed =>
       /\ poseObjs'[i].userData.arrow = poseObjs[i].userData.arrow
       /\ ArrowChildren(poseObjs'[i]) = ArrowChildren(poseObjs[i])

\* C2: one arrow is allocated with each Renderable, and a Renderable keeps that
\* arrow as its only arrow in every step.
C2_ExactlyOneArrow == [](C2_ArrowInv) /\ [][C2_Creation /\ C2_SameArrow]_vars

\* A Renderable that has taken a second message and a settings edit, with the
\* arrow it was created with.
C2_Witness ==
  \E t \in DOMAIN renderables :
    /\ UserDataOf(t).receiveTime = 2
    /\ renderables[t] = 1
    /\ UserDataOf(t).arrow = 1
    /\ UserDataOf(t).settings # DEFAULT_SETTINGS
    /\ arrows[1].marker.scale = [x |-> 200, y |-> 30, z |-> 30]

-----------------------------------------------------------------------------
\* C3.  Once a topic has a Renderable, every step other than the disposal of the
\* topic leaves the registry entry pointing at the same, undisposed object.
C3_Step ==
  \A t \in DOMAIN renderables :
    \/ /\ t \in DOMAIN renderables'
       /\ renderables'[t] = renderables[t]
       /\ ~poseObjs'[renderables[t]].disposed
    \/ Dispose(t)
    \/ DisposeAll

\* C3: every step keeps the registry entry of a topic on the same object, or is
\* the disposal of that topic or of the whole extension.
C3_StableIdentity == [][C3_Step]_vars

\* The first Renderable of a topic after a second message and an edit of the
\* topic.
C3_Witness ==
  /\ "/pose" \in DOMAIN renderables
  /\ UserDataOf("/pose").settings # DEFAULT_SETTINGS
  /\ UserDataOf("/pose").receiveTime > 1
  /\ renderables["/pose"] = 1
  /\ edits > 0

\* A Renderable created for a topic after the disposal of the topic's first one.
C3_WitnessRecreated ==
  \E t \in DOMAIN renderables :
    \E i \in DOMAIN poseObjs :
      poseObjs[i].disposed /\ poseObjs[i].name = t /\ renderables[t] > i
-----------------------------------------------------------------------------
\* C4 (as stated).  A Renderable owns a sphere if and only if its source
\* message carries covariance and its effective showCovariance is true.
C4_SphereIffCovarianceAndShown ==
  \A i \in LiveIds :
    LET ud == poseObjs[i].userData
    IN (ud.sphere # <<>>) <=> (HasCovariance(ud.poseMessage) /\ ud.settings.showCovariance)

\* C4 (amended).  A Renderable owns a sphere if and only if a covariance-bearing
\* message has been processed for it, whatever showCovariance is: it owns one
\* while its stored message carries covariance, gets it only from such a
\* message on its topic, keeps it until disposed, and never owns more than one.
SphereOf(topic) ==
  IF topic \in DOMAIN renderables THEN UserDataOf(topic).sphere ELSE <<>>

C4_SphereInv ==
  /\ \A i \in LiveIds :
       LET ud == poseObjs[i].userData
       IN /\ HasCovariance(ud.poseMessage) => ud.sphere # <<>>
          /\ Len(ud.sphere) <= 1
          /\ \A k \in DOMAIN ud.sphere :
               /\ ud.sphere[k] \in DOMAIN spheres
               /\ ~spheres[ud.sphere[k]].disposed
               /\ \A j \in LiveIds \ {i} : ud.sphere[k] \notin
                                             {poseObjs[j].userData.sphere[m] :
                                                m \in DOMAIN poseObjs[j].userData.sphere}
  /\ Len(spheres) <= Len(poseObjs)

C4_SphereFromCovariance ==
  \A t \in Topics :
    (SphereOf(t) = <<>> /\ SphereOf(t)' # <<>>) => PoseWithCovarianceStep(t)

C4_SphereStays ==
  \A i \in LiveIds :
    (poseObjs[i].userData.sphere # <<>> /\ ~poseObjs'[i].disposed) =>
       poseObjs'[i].userData.sphere # <<>>

\* C4 (amended): a stored covariance implies a sphere, at most one per
\* Renderable; a sphere appears only in a covariance-bearing message step on
\* the topic and then stays.
C4_SphereIffCovarianceSeen ==
  [](C4_SphereInv) /\ [][C4_SphereFromCovariance /\ C4_SphereStays]_vars

\* A Renderable that owns a sphere although its showCovariance is false.
C4_Witness ==
  \E t \in DOMAIN renderables :
    /\ UserDataOf(t).sphere # <<>>
    /\ HasCovariance(UserDataOf(t).poseMessage)
    /\ ~UserDataOf(t).settings.showCovariance
    /\ ~spheres[UserDataOf(t).sphere[1]].visible

-----------------------------------------------------------------------------
\* r is the square root of v.
IsRoot(r, v) == r >= 0 /\ r * r = v

\* C5.  While the stored message of a Renderable carries covariance K, the scale
\* of its sphere is the square roots of K[0], K[7], K[14]: nothing else of K
\* and no setting enters it.
C5_SphereScale ==
  \A i \in LiveIds :
    LET ud == poseObjs[i].userData
    IN HasCovariance(ud.poseMessage) =>
         /\ ud.sphere # <<>>
         /\ LET K == ud.poseMessage.pose.covariance
                scale == spheres[ud.sphere[1]].marker.scale
            IN /\ IsRoot(scale.x, K[0])
               /\ IsRoot(scale.y, K[7])
               /\ IsRoot(scale.z, K[14])
               /\ K \in {CovExample, CovExampleFull} => scale = [x |-> 20, y |-> 30, z |-> 10]

\* The example variances 0.04, 0.09, 0.01 with other entries of the matrix set
\* and every setting of the topic that can enter a marker edited: 0.2, 0.3, 0.1.
C5_Witness ==
  /\ "/pose" \in DOMAIN renderables
  /\ HasCovariance(UserDataOf("/pose").poseMessage)
  /\ UserDataOf("/pose").poseMessage.pose.covariance = CovExampleFull
  /\ UserDataOf("/pose").settings.scale = <<200, 30, 30>>
  /\ UserDataOf("/pose").settings.covarianceColor = "#00ff0080"
  /\ spheres[UserDataOf("/pose").sphere[1]].marker.scale = [x |-> 20, y |-> 30, z |-> 10]

-----------------------------------------------------------------------------
\* C6.  Only a covariance-bearing message allocates a sphere: a PoseStamped
\* message, a settings edit or a disposal leaves the number of spheres and
\* every Renderable without a sphere as they are.
C6_Step ==
  \/ \E t \in Topics : PoseWithCovarianceStep(t)
  \/ /\ Len(spheres') = Len(spheres)
     /\ \A t \in DOMAIN renderables' :
          UserDataOf(t)'.sphere # <<>> => (t \in DOMAIN renderables /\ UserDataOf(t).sphere # <<>>)

\* C6: a step that is not the delivery of a covariance-bearing message
\* allocates no sphere and gives no Renderable a sphere.
C6_NoSphereWithoutCovariance == [][C6_Step]_vars

\* A topic that took two PoseStamped messages and an edit of showCovariance,
\* with no sphere allocated at all.
C6_Witness ==
  /\ "/pose" \in DOMAIN renderables
  /\ renderables["/pose"] = 1
  /\ UserDataOf("/pose").receiveTime = 2
  /\ ~HasCovariance(UserDataOf("/pose").poseMessage)
  /\ "showCovariance" \in DOMAIN UserSettings(config, "/pose")
  /\ UserDataOf("/pose").sphere = <<>>
  /\ spheres = <<>>

-----------------------------------------------------------------------------
\* C7.  A Renderable that has a sphere keeps that very sphere, undisposed, until
\* the Renderable is disposed; an edit of showCovariance changes nothing of a
\* sphere but its visible flag.
IsShowCovarianceEdit(a) ==
  /\ a.action = "update"
  /\ Len(a.payload.path) = 3
  /\ a.payload.path[1] = "topics"
  /\ a.payload.path[3] = "showCovariance"

C7_SameSphere ==
  \A i \in LiveIds :
    (poseObjs[i].userData.sphere # <<>> /\ ~poseObjs'[i].disposed) =>
       /\ poseObjs'[i].userData.sphere = poseObjs[i].userData.sphere
       /\ ~spheres'[poseObjs[i].userData.sphere[1]].disposed

C7_OnlyVisibility ==
  \A a \in SettingsActions :
    (IsShowCovarianceEdit(a) /\ OnSettingsEdit(a)) =>
       /\ Len(spheres') = Len(spheres)
       /\ \A k \in DOMAIN spheres :
            spheres'[k] = IF spheres[k].disposed THEN spheres[k]
                          ELSE [spheres[k] EXCEPT !.visible = spheres'[k].visible]

\* C7: every step keeps the sphere of an undisposed Renderable, and a
\* showCovariance edit changes at most the visible flag of a sphere.
C7_SphereKept == [][C7_SameSphere /\ C7_OnlyVisibility]_vars

\* The state after a covariance-bearing message, an edit of showCovariance to
\* false and one to true: the first sphere, visible, and no other sphere.
C7_Witness ==
  /\ "/pose" \in DOMAIN renderables
  /\ UserDataOf("/pose").sphere = <<1>>
  /\ now = 1
  /\ edits = 2
  /\ config.topics = ("/pose" :> ("showCovariance" :> TRUE))
  /\ spheres[1].visible
  /\ Len(spheres) = 1

-----------------------------------------------------------------------------
-----------------------------------------------------------------------------
\* C9.  A settings edit leaves the stored message, message time, receive time
\* and frame id of every Renderable unchanged, and changes nothing at all of
\* the Renderables (and their primitives) of topics other than the one addressed.
C9_Step ==
  \A a \in SettingsActions :
    OnSettingsEdit(a) =>
      /\ renderables' = renderables
      /\ Len(poseObjs') = Len(poseObjs)
      /\ Len(arrows') = Len(arrows)
      /\ \A i \in LiveIds :
           /\ ~poseObjs'[i].disposed
           /\ poseObjs'[i].userData.poseMessage = poseObjs[i].userData.poseMessage
           /\ poseObjs'[i].userData.messageTime = poseObjs[i].userData.messageTime
           /\ poseObjs'[i].userData.receiveTime = poseObjs[i].userData.receiveTime
           /\ poseObjs'[i].userData.frameId = poseObjs[i].userData.frameId
           /\ poseObjs[i].name # a.payload.path[2] =>
                /\ poseObjs'[i] = poseObjs[i]
                /\ arrows'[poseObjs[i].userData.arrow] = arrows[poseObjs[i].userData.arrow]
                /\ \A k \in DOMAIN poseObjs[i].userData.sphere :
                     spheres'[poseObjs[i].userData.sphere[k]] = spheres[poseObjs[i].userData.sphere[k]]

\* C9: every settings edit step keeps message, times and frame id of all
\* Renderables and everything of the Renderables of the other topics.
C9_EditKeepsMessage == [][C9_Step]_vars

\* Both topics have a Renderable; the one of /pose shows the edited scale on its
\* arrow and still has the frame id of its message, the one of /odom has the
\* default look.
C9_Witness ==
  /\ DOMAIN renderables = Topics
  /\ edits > 0
  /\ UserDataOf("/pose").settings.scale = <<200, 30, 30>>
  /\ arrows[UserDataOf("/pose").arrow].marker.scale = [x |-> 200, y |-> 30, z |-> 30]
  /\ UserDataOf("/pose").frameId = "map"
  /\ UserDataOf("/odom").settings = DEFAULT_SETTINGS
  /\ arrows[UserDataOf("/odom").arrow].marker.scale = [x |-> 100, y |-> 15, z |-> 15]

-----------------------------------------------------------------------------
\* C10.  After a message on a topic, the Renderable of the topic holds that
\* message (normalized), the time of its header stamp, its frame id and the
\* receive time of the delivery.
HoldsMessage(topic, poseMessage) ==
  /\ topic \in DOMAIN renderables'
  /\ LET ud == UserDataOf(topic)'
     IN /\ ud.poseMessage = poseMessage
        /\ ud.messageTime = poseMessage.header.stamp.sec * 1000000000
                              + poseMessage.header.stamp.nsec
        /\ ud.frameId = poseMessage.header.frame_id
        /\ ud.receiveTime = now'

C10_Step ==
  /\ \A e \in PoseStampedEvents :
       handlePoseStamped(e[1], e[2]) => HoldsMessage(e[1], normalizePoseStamped(e[2]))
  /\ \A e \in PoseWithCovarianceEvents :
       handlePoseWithCovariance(e[1], e[2]) =>
         HoldsMessage(e[1], normalizePoseWithCovarianceStamped(e[2]))

\* C10: every message step leaves the delivered message, its stamp, its frame
\* id and its receive time on the Renderable of the topic.
C10_HoldsLatestMessage == [][C10_Step]_vars

\* The first Renderable holds a second message whose frame id and stamp are not
\* those of any message that can create it with frame id "map".
C10_Witness ==
  /\ "/pose" \in DOMAIN renderables
  /\ renderables["/pose"] = 1
  /\ UserDataOf("/pose").receiveTime = 2
  /\ UserDataOf("/pose").frameId = "odom"
  /\ UserDataOf("/pose").messageTime = 2000000000
  /\ arrows[1].marker.header.frame_id = "odom"

-----------------------------------------------------------------------------
\* C11.  Edits that are not field edits of a topic.

\* The path of the action has the shape ["topics", topicName, fieldName] and
\* the action is an update.
IsTopicFieldUpdate(a) ==
  /\ a.action = "update"
  /\ Len(a.payload.path) = 3
  /\ a.payload.path[1] = "topics"

SceneUnchanged == UNCHANGED <<config, renderables, poseObjs, arrows, spheres>>

C11_Step ==
  \A a \in SettingsActions :
    (OnSettingsEdit(a) /\ ~IsTopicFieldUpdate(a)) => SceneUnchanged

\* C11: a settings action that is not an update, or whose path is not
\* ["topics", topicName, fieldName], changes neither the persisted settings
\* nor any Renderable.
C11_InvalidEditIgnored == [][C11_Step]_vars

\* The update addressed to ["transforms", "/pose", "visible"] has been
\* persisted.
C11_Witness ==
  /\ "/pose" \in DOMAIN config.transforms
  /\ config.transforms["/pose"] = [visible |-> FALSE]

-----------------------------------------------------------------------------
\* C12.  Operations addressed to a topic that has no Renderable.

EditsTopicWithoutRenderable(a) ==
  /\ IsTopicFieldUpdate(a)
  /\ a.payload.path[2] \notin DOMAIN renderables
  /\ OnSettingsEdit(a)

DisposesUnknownTopic(t) ==
  /\ t \notin DOMAIN renderables
  /\ Dispose(t)

\* C12 as stated: a settings edit for a topic without Renderable and the
\* disposal of an unknown topic change no state at all, the persisted settings
\* included.
C12_NoOpWithoutRenderable ==
  [][/\ \A a \in SettingsActions : EditsTopicWithoutRenderable(a) => SceneUnchanged
     /\ \A t \in Topics : DisposesUnknownTopic(t) => SceneUnchanged]_vars

C12_Step ==
  /\ \A a \in SettingsActions :
       EditsTopicWithoutRenderable(a) =>
         LET t == a.payload.path[2]
             f == a.payload.path[3]
         IN /\ UNCHANGED <<renderables, poseObjs, arrows, spheres>>
            /\ t \in DOMAIN config'.topics
            /\ f \in DOMAIN config'.topics[t]
            /\ config'.topics[t][f] = a.payload.value
            /\ \A u \in DOMAIN config.topics \ {t} :
                 u \in DOMAIN config'.topics /\ config'.topics[u] = config.topics[u]
            /\ config'.transforms = config.transforms
  /\ \A t \in Topics : DisposesUnknownTopic(t) => SceneUnchanged

\* C12: a settings edit for a topic without Renderable creates no Renderable
\* and changes no Renderable, primitive or registry entry, but the edited
\* value is persisted under the topic; the disposal of a topic without
\* Renderable changes nothing.
C12_OnlyPersists == [][C12_Step]_vars

\* An edit of /pose has been persisted although no Renderable was ever created.
C12_Witness ==
  /\ poseObjs = <<>>
  /\ renderables = EmptyObject
  /\ "/pose" \in DOMAIN config.topics
  /\ config.topics["/pose"] = [scale |-> <<200, 30, 30>>]

-----------------------------------------------------------------------------
\* C13.  Disposal releases every primitive.

\* The primitives the Renderable r owns or owned are disposed in the heaps
\* arrs and sphs.
PrimitivesDisposed(r, arrs, sphs) ==
  LET arrow == IF r.disposed THEN r.arrow ELSE r.userData.arrow
      sphere == IF r.disposed THEN r.sphere ELSE r.userData.sphere
  IN /\ arrs[arrow].disposed
     /\ sphere # <<>> => sphs[sphere[1]].disposed

RegisteredIds == {renderables[t] : t \in DOMAIN renderables}

C13_Inv ==
  \A i \in DOMAIN poseObjs :
    poseObjs[i].disposed =>
      PrimitivesDisposed(poseObjs[i], arrows, spheres) /\ i \notin RegisteredIds

C13_Step ==
  /\ \A t \in Topics :
       (t \in DOMAIN renderables /\ Dispose(t)) =>
         /\ t \notin DOMAIN renderables'
         /\ poseObjs'[renderables[t]].disposed
         /\ PrimitivesDisposed(poseObjs[renderables[t]], arrows', spheres')
  /\ DisposeAll =>
       /\ renderables' = EmptyObject
       /\ \A i \in DOMAIN poseObjs' :
            poseObjs'[i].disposed /\ PrimitivesDisposed(poseObjs[i], arrows', spheres')
       /\ \A i \in DOMAIN arrows' : arrows'[i].disposed
       /\ \A i \in DOMAIN spheres' : spheres'[i].disposed

\* C13: the arrow and the sphere of a disposed Renderable are disposed and the
\* Renderable is in the registry no more; the disposal of a topic leaves its
\* Renderable so, the disposal of the extension leaves every Renderable so.
C13_DisposeReleasesAll == [](C13_Inv) /\ [][C13_Step]_vars

\* A Renderable that owned a sphere has been disposed while the Renderable of
\* the other topic is live.
C13_Witness ==
  /\ Len(poseObjs) = 2
  /\ poseObjs[1].disposed
  /\ poseObjs[1].sphere # <<>>
  /\ spheres[poseObjs[1].sphere[1]].disposed
  /\ ~poseObjs[2].disposed
  /\ now = 2 /\ edits = 0
  /\ LiveIds = {2}

-----------------------------------------------------------------------------
\* C14.  The merge of settings, field by field.

\* {defaults, o1, o2} with later values winning, stated for each field.
SingleMerge(d, o1, o2) ==
  [k \in DOMAIN d \cup DOMAIN o1 \cup DOMAIN o2 |->
     IF k \in DOMAIN o2 THEN o2[k]
     ELSE IF k \in DOMAIN o1 THEN o1[k]
     ELSE d[k]]

C14_Inv ==
  /\ merge.step = 1 =>
       merge.settings = SingleMerge(merge.defaults, EmptyObject, merge.override1)
  /\ merge.step >= 2 =>
       merge.settings = SingleMerge(merge.defaults, merge.override1, merge.override2)

\* C14: two successive resolutions give the single merge of the defaults and
\* the two overrides with the later values winning, and resolving with the
\* same override once more changes nothing.
C14_MergeAssociativeIdempotent ==
  [](C14_Inv) /\ [][ResolveAgain => merge'.settings = merge.settings]_vars

\* Both overrides set the color and showCovariance, to different ends, the
\* first alone sets the scale, and the second has been resolved twice.
C14_Witness ==
  /\ merge.step = 3
  /\ merge.defaults = DEFAULT_SETTINGS
  /\ merge.override1 = [scale |-> <<200, 30, 30>>, showCovariance |-> FALSE]
  /\ merge.override2 = [showCovariance |-> TRUE, color |-> "#ff0000"]
  /\ merge.settings = [DEFAULT_SETTINGS EXCEPT !.scale = <<200, 30, 30>>,
                                               !.color = "#ff0000"]

-----------------------------------------------------------------------------
\* C15.  Normalization of partial messages.

IsFullHeader(h) ==
  /\ DOMAIN h = {"frame_id", "stamp"}
  /\ DOMAIN h.stamp = {"sec", "nsec"}

IsFullPose(p) ==
  /\ DOMAIN p = {"position", "orientation"}
  /\ DOMAIN p.position = {"x", "y", "z"}
  /\ DOMAIN p.orientation = {"x", "y", "z", "w"}

IsFullPoseStamped(m) ==
  /\ DOMAIN m = {"header", "pose"}
  /\ IsFullHeader(m.header)
  /\ IsFullPose(m.pose)

IsFullPoseWithCovarianceStamped(m) ==
  /\ DOMAIN m = {"header", "pose"}
  /\ IsFullHeader(m.header)
  /\ DOMAIN m.pose = {"pose", "covariance"}
  /\ IsFullPose(m.pose.pose)
  /\ DOMAIN m.pose.covariance = 0..35
  /\ Cardinality(DOMAIN m.pose.covariance) = 36

OmitsCovariance(raw) ==
  "pose" \notin DOMAIN raw \/ "covariance" \notin DOMAIN raw.pose

\* Every partial message can be delivered as long as the clock runs: its
\* handler has a result, a scene with a Renderable for the topic.
C15_Delivered ==
  now < MaxTime =>
    LET scene == Scene
        receiveTime == toNanoSec(ReceiveTime(now + 1))
    IN /\ \A m \in PartialPoseStamped :
            "/pose" \in DOMAIN addPose(scene, "/pose", normalizePoseStamped(m),
                                       receiveTime).renderables
       /\ \A m \in PartialPoseWithCovarianceStamped :
            "/pose" \in DOMAIN addPose(scene, "/pose",
                                       normalizePoseWithCovarianceStamped(m),
                                       receiveTime).renderables

\* (Each conjunct is an implication from the delivery of a message, written
\* with its consequent first.)
C15_Step ==
  /\ \/ /\ "/pose" \in DOMAIN renderables'
        /\ IsFullPoseStamped(UserDataOf("/pose").poseMessage)'
     \/ \A m \in PartialPoseStamped : ~handlePoseStamped("/pose", m)
  /\ \/ /\ "/pose" \in DOMAIN renderables'
        /\ IsFullPoseWithCovarianceStamped(UserDataOf("/pose").poseMessage)'
     \/ \A m \in PartialPoseWithCovarianceStamped : ~handlePoseWithCovariance("/pose", m)
  /\ \/ /\ "/pose" \in DOMAIN renderables'
        /\ HasCovariance(UserDataOf("/pose").poseMessage)'
        /\ \A i \in 0..35 : UserDataOf("/pose").poseMessage'.pose.covariance[i] = 0
     \/ \A m \in PartialPoseWithCovarianceStamped :
          OmitsCovariance(m) => ~handlePoseWithCovariance("/pose", m)

\* C15: whatever fields a delivered message omits, its handler completes and
\* the Renderable stores a message with every field defined; an omitted
\* covariance is stored as 36 zeros.
C15_NormalizesPartial == [](C15_Delivered) /\ [][C15_Step]_vars

\* The second message of the Renderable had only a frame id and a position:
\* the stamp, the orientation and the covariance stored are the defaults, and
\* the sphere has no extent.
C15_Witness ==
  /\ now = 2
  /\ "/pose" \in DOMAIN renderables
  /\ renderables["/pose"] = 1
  /\ UserDataOf("/pose").poseMessage =
       [header |-> [frame_id |-> "map", stamp |-> TIME_ZERO],
        pose |-> [pose |-> [position |-> PoseA.position,
                            orientation |-> [x |-> 0, y |-> 0, z |-> 0, w |-> 1]],
                  covariance |-> ZeroMatrix6]]
  /\ UserDataOf("/pose").sphere # <<>>
  /\ spheres[UserDataOf("/pose").sphere[1]].marker.scale = [x |-> 0, y |-> 0, z |-> 0]

-----------------------------------------------------------------------------
\* Vocabulary of the claims about the diagnostics summary

\* isPinned of a row: pinnedIds.includes(item.id)
IsPinned(n) == n.id \in Range(pinnedIds)

IndexOf(seq, x) == CHOOSE k \in DOMAIN seq : seq[k] = x

IdOf(i) == getDiagnosticId(Entities[i][1], Entities[i][2])

\* The status of the entity a pinned id names is known.
KnownId(id) == \E k \in DOMAIN AllDiagnostics : AllDiagnostics[k].id = id

-----------------------------------------------------------------------------
\* C16: in the rows of the summary every pinned entity is above every entity
\* that is not pinned, the pinned entities are in the order of the list of
\* pinned ids, and no entity has two rows; whatever the filter text, the
\* minimum level and sortByLevel are.
C16_PinnedFirstInPinOrder ==
  LET rows == nodes
  IN /\ \A i, j \in DOMAIN rows :
          (IsPinned(rows[i]) /\ ~IsPinned(rows[j])) => i < j
     /\ \A i, j \in DOMAIN rows :
          (i < j /\ IsPinned(rows[i]) /\ IsPinned(rows[j])) =>
            IndexOf(pinnedIds, rows[i].id) < IndexOf(pinnedIds, rows[j].id)
     /\ \A i, j \in DOMAIN rows : rows[i].id = rows[j].id => i = j

\* base, which the filter text does not match, and arm are pinned in this
\* order and are above Arm, which is not pinned and has the highest level.
C16_Witness ==
  /\ pinnedIds = <<IdOf(3), IdOf(1)>>
  /\ hardwareIdFilter = <<"a", "R">>
  /\ sortByLevel
  /\ minLevel = 0
  /\ Len(nodes) = 3
  /\ nodes[1].id = IdOf(3) /\ nodes[2].id = IdOf(1) /\ nodes[3].id = IdOf(2)
  /\ nodes[3].status.level > nodes[1].status.level
  /\ nodes[3].status.level > nodes[2].status.level

-----------------------------------------------------------------------------
\* C17: a pinned entity whose status is known has a row in the summary,
\* whatever the filter text and the minimum level are.
C17_PinnedAlwaysVisible ==
  LET rows == nodes
  IN \A i \in DOMAIN pinnedIds :
       KnownId(pinnedIds[i]) => \E k \in DOMAIN rows : rows[k].id = pinnedIds[i]

\* The pinned entity base has a known status of level ok and no row, the
\* minimum level being warn; the filter box is empty.
C17_Witness ==
  /\ pinnedIds = <<IdOf(3)>>
  /\ KnownId(IdOf(3))
  /\ diagnostics[Entities[3][1]][Entities[3][2]].status.level = 0
  /\ minLevel = 1
  /\ hardwareIdFilter = <<>>
  /\ \A k \in DOMAIN nodes : nodes[k].id # IdOf(3)

\* What does hold: the filter text never hides a pinned entity whose status is
\* known and whose level is at least the minimum level.
C17_PinnedBypassFilterText ==
  LET rows == Range(nodes)
      known == AllDiagnostics
  IN \A i \in DOMAIN pinnedIds :
       \A k \in DOMAIN known :
         (known[k].id = pinnedIds[i] /\ known[k].status.level >= minLevel)
           => known[k] \in rows

-----------------------------------------------------------------------------
\* C18.  The list of pinned ids under togglePinned.

C18_NoDuplicates ==
  \A i, j \in DOMAIN pinnedIds : pinnedIds[i] = pinnedIds[j] => i = j

C18_ToggleChanges ==
  \A i \in DOMAIN Entities : toggle(pinnedIds, IdOf(i)) # pinnedIds

\* A click on a pin changes the list, so only the steps that change it can be
\* steps of togglePinned.
C18_Step ==
  \A i \in DOMAIN Entities, level \in KNOWN_LEVELS :
    (pinnedIds' # pinnedIds /\ togglePinned(DiagnosticInfo(Entities[i], level))) =>
      LET id == IdOf(i)
      IN IF id \in Range(pinnedIds)
         THEN /\ Range(pinnedIds') = Range(pinnedIds) \ {id}
              /\ Len(pinnedIds') = Len(pinnedIds) - 1
              /\ \A a, b \in Range(pinnedIds') :
                   IndexOf(pinnedIds', a) < IndexOf(pinnedIds', b)
                     <=> IndexOf(pinnedIds, a) < IndexOf(pinnedIds, b)
         ELSE /\ Len(pinnedIds') = Len(pinnedIds) + 1
              /\ pinnedIds'[Len(pinnedIds')] = id
              /\ SubSeq(pinnedIds', 1, Len(pinnedIds)) = pinnedIds

\* C18: togglePinned puts an id that is not pinned at the end of the list and
\* takes a pinned id out of it, the other ids keeping their order; the list
\* never has an id twice.
C18_ToggleAppendsOrRemoves ==
  [](C18_NoDuplicates /\ C18_ToggleChanges) /\ [][C18_Step]_vars

\* base, pinned in the saved configuration, has been unpinned and pinned again
\* after arm and Arm: it is the last of the list.
C18_Witness ==
  /\ pinnedIds = <<IdOf(1), IdOf(2), IdOf(3)>>
  /\ Len(nodes) = 3
  /\ nodes[3].id = IdOf(3)

-----------------------------------------------------------------------------
\* C19.  The order of the entities that are not pinned.

Unpinned == SelectSeq(nodes, LAMBDA n : ~IsPinned(n))

\* C19: with sortByLevel the entities that are not pinned are in the order of
\* descending level, and by display name inside a level; without it they are
\* by display name alone, whatever their levels.
C19_OrderOfUnpinned ==
  LET rows == Unpinned
  IN \A i, j \in DOMAIN rows :
       i < j =>
         IF sortByLevel
         THEN \/ rows[i].status.level > rows[j].status.level
              \/ /\ rows[i].status.level = rows[j].status.level
                 /\ StrLess(rows[i].displayName, rows[j].displayName)
         ELSE StrLess(rows[i].displayName, rows[j].displayName)

\* Without sortByLevel an entity of level ok is above one of level error, and
\* one of level error above one of level stale.
C19_Witness ==
  /\ ~sortByLevel
  /\ pinnedIds = <<>>
  /\ Len(nodes) = 3
  /\ nodes[1].status.level = 0
  /\ nodes[2].status.level = 2
  /\ nodes[3].status.level = 3

-----------------------------------------------------------------------------
\* C20.  What the operations of the chart bridge return.

\* result is the snapshot of the scales of instance: one entry for each axis
\* id, of the four fields left, right, min and max, with their current values.
IsSnapshotOf(result, instance) ==
  /\ DOMAIN result = DOMAIN instance.scales
  /\ \A id \in DOMAIN result :
       /\ DOMAIN result[id] = {"left", "right", "min", "max"}
       /\ result[id].left = instance.scales[id].left
       /\ result[id].right = instance.scales[id].right
       /\ result[id].min = instance.scales[id].min
       /\ result[id].max = instance.scales[id].max

ReturnsSnapshot ==
  /\ rpcResult' # <<>>
  /\ IsSnapshotOf(rpcResult'[1], chartInstance')

\* (An implication from the operations, written with its consequent first.)
C20_Step ==
  \/ ReturnsSnapshot
  \/ /\ \A o \in Outcomes :
          ~(\/ wheel(o) \/ mousedown(o) \/ mousemove(o) \/ mouseup(o)
            \/ panstart(o) \/ panmove(o) \/ panend(o))
     /\ \A args \in UpdateArgs : ~update(args)

\* C20: update and each of the seven event operations return the snapshot of
\* the scales the chart has after the operation: one entry for each axis id,
\* with the current left, right, min and max of the axis.
C20_ReturnsScalesAfter ==
  [](rpcResult # <<>> => IsSnapshotOf(rpcResult[1], chartInstance)) /\ [][C20_Step]_vars

\* The chart has got a second axis and a larger canvas by an update and its x
\* axis has been zoomed: the result has both axes, x with the zoomed range.
C20_Witness ==
  /\ rpcResult # <<>>
  /\ DOMAIN rpcResult[1] = {"x", "y"}
  /\ rpcResult[1]["x"] = [left |-> 30, right |-> 400, min |-> 4, max |-> 6]
  /\ rpcResult[1]["y"] = [left |-> 0, right |-> 30, min |-> 1, max |-> 20]
  /\ chartInstance.height = 250

-----------------------------------------------------------------------------
\* C21.  Operations on a destroyed chart.

\* The operation leaves the chart as it is and returns no scales or none of
\* any axis.
NoOpOnDestroyed ==
  /\ chartInstance' = chartInstance
  /\ rpcResult' \in {<<>>, <<EmptyObject>>}

C21_Step ==
  /\ \A o \in Outcomes :
       (\/ wheel(o) \/ mousedown(o) \/ mousemove(o) \/ mouseup(o)
        \/ panstart(o) \/ panmove(o) \/ panend(o)) => NoOpOnDestroyed
  /\ \A args \in UpdateArgs : update(args) => NoOpOnDestroyed
  /\ destroy => chartInstance' = chartInstance
  /\ \A click \in LabelClicks :
       getDatalabelAtEvent(click) => chartInstance' = chartInstance /\ datalabel' = <<>>

\* C21: once the chart has been destroyed, every operation (update, the seven
\* event operations, getDatalabelAtEvent, another destroy) leaves the chart
\* untouched, and those that return scales return none.
C21_AfterDestroyNoOp ==
  [][chartInstance.destroyed => C21_Step]_vars

\* A destroyed chart on which update is about to write new data and a new size.
C21_Witness ==
  /\ chartInstance.destroyed
  /\ chartInstance.data = [min |-> 0, max |-> 10]
  /\ ENABLED (/\ update([data |-> [min |-> 1, max |-> 20],
                         options |-> [scales |-> EmptyObject, plugins |-> EmptyObject],
                         width |-> 400, height |-> 250])
              /\ chartInstance'.data = [min |-> 1, max |-> 20]
              /\ chartInstance'.destroyed
              /\ rpcResult'[1] # EmptyObject)

-----------------------------------------------------------------------------
\* C22: every row of the rendered list, pinned or not, has a level of at least
\* minLevel, a rendered list has a row, and no list is rendered when no known
\* entity has a level of at least minLevel.
C22_RowsAtLeastMinLevel ==
  LET s == summary
      known == AllDiagnostics
  IN /\ \A k \in DOMAIN s.rows : s.rows[k].status.level >= minLevel
     /\ s.kind = "List" => Len(s.rows) > 0
     /\ (\A k \in DOMAIN known : known[k].status.level < minLevel) => s.kind # "List"

\* With the minimum level at error, the list has the row of Arm at level
\* error only: arm at level ok has none, and neither has the pinned base at
\* level ok.
C22_Witness ==
  LET s == summary
  IN /\ minLevel = 2
     /\ pinnedIds = <<IdOf(3)>>
     /\ Len(AllDiagnostics) = 3
     /\ diagnostics[Entities[3][1]][Entities[3][2]].status.level = 0
     /\ diagnostics[Entities[1][1]][Entities[1][2]].status.level = 0
     /\ s.kind = "List"
     /\ Len(s.rows) = 1
     /\ s.rows[1].id = IdOf(2)
     /\ s.rows[1].status.level = 2

-----------------------------------------------------------------------------
\* C23.  The visibility of the covariance sphere.

\* The showCovariance setting in effect for a topic: the saved value, else the
\* default.
EffectiveShowCovariance(topic) ==
  Spread(DEFAULT_SETTINGS, UserSettings(config, topic)).showCovariance

\* C23: whenever the message stored on the Renderable of a topic carries
\* covariance (after such a message, and after every settings edit applied
\* while it is stored), the Renderable has a sphere and the visible flag of the
\* sphere equals the showCovariance setting in effect for the topic.
C23_SphereVisibleIsShowCovariance ==
  \A t \in DOMAIN renderables :
    LET ud == UserDataOf(t)
    IN HasCovariance(ud.poseMessage) =>
         /\ ud.sphere # <<>>
         /\ spheres[ud.sphere[1]].visible = EffectiveShowCovariance(t)

\* After a covariance-bearing message on /pose and the edit of showCovariance
\* to false the sphere of /pose is hidden; that of /odom, with nothing saved,
\* is visible.
C23_Witness ==
  /\ DOMAIN renderables = {"/pose", "/odom"}
  /\ HasCovariance(UserDataOf("/pose").poseMessage)
  /\ HasCovariance(UserDataOf("/odom").poseMessage)
  /\ config.topics = ("/pose" :> ("showCovariance" :> FALSE))
  /\ edits = 1
  /\ ~spheres[UserDataOf("/pose").sphere[1]].visible
  /\ spheres[UserDataOf("/odom").sphere[1]].visible

-----------------------------------------------------------------------------
\* C24.  The datalabel click context.

\* The options of the chart have the click listener of the datalabels.
HasClickListener ==
  /\ "datalabels" \in DOMAIN chartInstance.options.plugins
  /\ "click" \in chartInstance.options.plugins.datalabels.listeners

C24_Step ==
  \A click \in LabelClicks :
    getDatalabelAtEvent(click) =>
      /\ lastDatalabelClickContext' = <<>>
      /\ datalabel' = IF click # <<>> /\ HasClickListener
                      THEN <<click[1].dataset.data[click[1].dataIndex]>>
                      ELSE <<>>

\* C24: getDatalabelAtEvent returns the data item of the label whose click
\* listener fired during the call, undefined when none fired, and leaves no
\* context stored: no context is stored between operations, so a call without
\* a label click returns undefined whatever was clicked before.
C24_ConsumesClickContext ==
  [](lastDatalabelClickContext = <<>>) /\ [][C24_Step]_vars

\* A click on the second label has returned its data item; nothing is stored.
C24_Witness ==
  /\ HasClickListener
  /\ datalabel = <<"p2">>
  /\ lastDatalabelClickContext = <<>>

-----------------------------------------------------------------------------
\* C25.  The nodes of the settings tree.

IsPoseDatatype(d) ==
  d \in POSE_STAMPED_DATATYPES \cup POSE_WITH_COVARIANCE_STAMPED_DATATYPES

\* The fields the node of topic t has to have.
ExpectedFields(t) ==
  {"scale", "color"}
    \cup (IF t.datatype \in POSE_WITH_COVARIANCE_STAMPED_DATATYPES
          THEN {"showCovariance"}
                 \cup (IF Nullish(UserSettings(config, t.name), "showCovariance", TRUE) = TRUE
                       THEN {"covarianceColor"} ELSE {})
          ELSE {})

\* C25: whatever topics are known, the settings tree has one node for each
\* topic of a pose datatype and none for another topic, at the path
\* ["topics", topicName]; the node has the fields scale and color, showCovariance
\* exactly for a pose-with-covariance topic and covarianceColor exactly when
\* moreover the showCovariance value of the topic is true; the value of each
\* field is the saved value of the topic, else the default.
C25_SettingsNodes ==
  \A topics \in TopicLists :
    LET entries == settingsNodes(config, topics)
    IN /\ \A i \in DOMAIN topics :
            Cardinality({k \in DOMAIN entries : entries[k].path = <<"topics", topics[i].name>>})
              = IF IsPoseDatatype(topics[i].datatype) THEN 1 ELSE 0
       /\ \A k \in DOMAIN entries :
            \E i \in DOMAIN topics :
              /\ entries[k].path = <<"topics", topics[i].name>>
              /\ DOMAIN entries[k].node.fields = ExpectedFields(topics[i])
              /\ \A f \in DOMAIN entries[k].node.fields :
                   entries[k].node.fields[f].value =
                     Nullish(UserSettings(config, topics[i].name), f, DEFAULT_SETTINGS[f])

\* With showCovariance false saved for /odom and a covariance color for /pose:
\* as a pose-with-covariance topic /odom has showCovariance and no
\* covarianceColor, and /pose has the saved color; as a pose topic each has
\* scale and color only.
C25_Witness ==
  /\ config.topics = ("/odom" :> ("showCovariance" :> FALSE))
                       @@ ("/pose" :> ("covarianceColor" :> "#00ff0080"))
  /\ \E topics \in TopicLists :
       LET entries == settingsNodes(config, topics)
       IN /\ Len(entries) = 2
          /\ entries[1].path = <<"topics", "/odom">>
          /\ DOMAIN entries[1].node.fields = {"scale", "color", "showCovariance"}
          /\ entries[1].node.fields["showCovariance"].value = FALSE
          /\ DOMAIN entries[2].node.fields = {"scale", "color"}
  /\ \E topics \in TopicLists :
       LET entries == settingsNodes(config, topics)
       IN /\ Len(entries) = 2
          /\ entries[1].path = <<"topics", "/pose">>
          /\ DOMAIN entries[1].node.fields =
               {"scale", "color", "showCovariance", "covarianceColor"}
          /\ entries[1].node.fields["covarianceColor"].value = "#00ff0080"
          /\ entries[1].node.fields["showCovariance"].value = TRUE

-----------------------------------------------------------------------------
\* C26: the sphere of every Renderable is among the children of the
\* Renderable in the scene graph, whether it was allocated with the Renderable
\* or on a later covariance-bearing message.
C26_SphereIsChild ==
  \A i \in LiveIds :
    LET ud == poseObjs[i].userData
    IN \A k \in DOMAIN ud.sphere : <<"sphere", ud.sphere[k]>> \in poseObjs[i].children

\* The Renderable of /pose was created by a message without covariance and
\* got its sphere by a later covariance-bearing message: the sphere is visible
\* and the only child of the Renderable is the arrow.
C26_Witness ==
  /\ "/pose" \in DOMAIN renderables
  /\ HasCovariance(UserDataOf("/pose").poseMessage)
  /\ UserDataOf("/pose").sphere = <<1>>
  /\ spheres[1].visible
  /\ poseObjs[renderables["/pose"]].children = {<<"arrow", UserDataOf("/pose").arrow>>}

-----------------------------------------------------------------------------
\* C27: while the message stored on a Renderable carries no covariance, the
\* Renderable shows no sphere: a sphere it got from an earlier message is not
\* visible.
C27_NoSphereShownWithoutCovariance ==
  \A i \in LiveIds :
    LET ud == poseObjs[i].userData
    IN ~HasCovariance(ud.poseMessage) =>
         \A k \in DOMAIN ud.sphere : ~spheres[ud.sphere[k]].visible

\* The Renderable of /pose got its sphere with its first message; the message
\* stored now carries no covariance and the sphere, a child of the Renderable,
\* is still visible.
C27_Witness ==
  /\ "/pose" \in DOMAIN renderables
  /\ ~HasCovariance(UserDataOf("/pose").poseMessage)
  /\ UserDataOf("/pose").sphere = <<1>>
  /\ <<"sphere", 1>> \in poseObjs[renderables["/pose"]].children
  /\ spheres[1].visible
  /\ now = 2

-----------------------------------------------------------------------------
\* C28.  The listeners of the emulated event targets.

\* The emitter behind a target of the fake node of manager m.
TargetOf(m, target) ==
  IF target = "node" THEN managers[m].fakeNodeEvents ELSE managers[m].fakeDocumentEvents

Registered(m, target, eventName, fn) ==
  fn \in Range(listeners(TargetOf(m, target), eventName))

Count(seq, x) == Cardinality({i \in DOMAIN seq : seq[i] = x})

\* Every function a plugin of some chart may pass.
Handlers ==
  {Handler(c, h) : c \in DOMAIN managers, h \in {"wheel", "mouseDown", "mouseUp", "pan"}}

\* No function is registered twice for an event name on a target.
C28_RegisteredOnce ==
  \A m \in DOMAIN managers, target \in {"node", "document"} :
    \A e \in DOMAIN TargetOf(m, target) :
      \A fn \in Range(TargetOf(m, target)[e]) : Count(TargetOf(m, target)[e], fn) = 1

C28_Step ==
  /\ managers' # managers =>
     \A m \in DOMAIN managers, a \in ListenerArgs :
       /\ fakeNodeAddEventListener(m, a) =>
            IF a[3] = <<>> \/ Registered(m, a[1], a[2], Handler(m, a[3][1]))
            THEN managers' = managers
            ELSE Registered(m, a[1], a[2], Handler(m, a[3][1]))'
       /\ fakeNodeRemoveEventListener(m, a) =>
            IF a[3] = <<>>
            THEN managers' = managers
            ELSE ~Registered(m, a[1], a[2], Handler(m, a[3][1]))'
  /\ calls' # calls =>
     \A m \in DOMAIN managers, name \in PointerOperations :
       pointerOperation(m, name) =>
         \A fn \in Handlers \cup Range(calls') :
           Count(calls', fn) =
             IF Registered(m, IF name = "mouseup" THEN "document" ELSE "node", name, fn)
             THEN 1 ELSE 0

\* C28: a function is registered at most once for an event name on a target:
\* adding it again, or adding no function, changes nothing, and removing it
\* leaves it unregistered; so wheel, mousedown and mousemove call each listener
\* registered for the event on the node exactly once and no other function,
\* and mouseup does so with the listeners registered for it on the document.
C28_ListenerOnce ==
  [](C28_RegisteredOnce) /\ [][C28_Step]_vars

\* The mouseup handler of manager 1 is registered on the document and on the
\* node, two handlers are registered for wheel on the node; the mouseup
\* operation has called the handler once.
C28_Witness ==
  /\ Len(managers) >= 1
  /\ listeners(managers[1].fakeNodeEvents, "wheel") = <<Handler(1, "wheel"), Handler(1, "pan")>>
  /\ listeners(managers[1].fakeNodeEvents, "mouseup") = <<Handler(1, "mouseUp")>>
  /\ listeners(managers[1].fakeDocumentEvents, "mouseup") = <<Handler(1, "mouseUp")>>
  /\ calls = <<Handler(1, "mouseUp")>>

-----------------------------------------------------------------------------
\* C29.  What a construction leaves behind.

C29_Inv ==
  /\ \A i \in DOMAIN zoomPluginStart : zoomPluginStart[i].wrap = "bind"
  /\ canvasListeners = {}
  /\ \A m \in DOMAIN managers :
       /\ managers[m].ctx.canvas = [fake |-> FALSE, of |-> m]
       /\ \A target \in {"node", "document"} :
            \A e \in DOMAIN TargetOf(m, target) :
              \A fn \in Range(TargetOf(m, target)[e]) : fn.chart = m

C29_Step ==
  constructor =>
    LET c == Len(managers) + 1
    IN /\ Len(managers') = c
       /\ \A m \in DOMAIN managers : managers'[m] = managers[m]
       /\ \A i \in DOMAIN ZoomListeners(c) :
            LET l == ZoomListeners(c)[i]
            IN l[3] \in Range(listeners(IF l[1] = "node"
                                        THEN managers'[c].fakeNodeEvents
                                        ELSE managers'[c].fakeDocumentEvents, l[2]))

\* C29: after any number of constructions the start hook of the zoom plugin
\* is the plugin's own hook, bound, with no replacement that refers to a fake
\* node left around it; the ctx of every chart is its own canvas again; no
\* listener is registered on a real canvas, the listeners on the emitters of a
\* manager are those of its own chart, and a construction registers the zoom
\* listeners of the new chart on the new emitters and leaves the others alone.
C29_NoPatchLeft ==
  [](C29_Inv) /\ [][C29_Step]_vars

\* Two managers have been constructed: the hook is the plugin's own, bound
\* twice, and each manager has the wheel listener of its own chart.
C29_Witness ==
  /\ Len(managers) = 2
  /\ zoomPluginStart = <<[wrap |-> "bind"], [wrap |-> "bind"]>>
  /\ listeners(managers[1].fakeNodeEvents, "wheel") = <<Handler(1, "wheel")>>
  /\ listeners(managers[2].fakeNodeEvents, "wheel") = <<Handler(2, "wheel")>>
  /\ listeners(managers[2].fakeDocumentEvents, "mouseup") = <<Handler(2, "mouseUp")>>


=============================================================================
